---- MODULE Spec2Model ----
(***************************************************************************)
(* PseudoCompiler: lowering of the AST to the flat IR stream               *)
(* (pseu::ir::IntermediateCodeGen, src/src/ir.cpp) as driven by the        *)
(* compile loop of main (src/src/main.cpp).                                *)
(*                                                                         *)
(* std::string values that the code builds or inspects character by        *)
(* character (identifier and literal token text, T<n>/L<n>/S<n> names,     *)
(* string literal text) are sequences of one-character strings.  Strings   *)
(* the code only compares whole (operator tokens, type and kind strings)   *)
(* are plain strings.                                                      *)
(***************************************************************************)
EXTENDS Integers, Sequences, FiniteSets, TLC

(***************************************************************************)
(* Strings                                                                 *)
(***************************************************************************)
Digits == <<"0", "1", "2", "3", "4", "5", "6", "7", "8", "9">>

DigitChars == {Digits[i] : i \in 1..10}

\* std::to_string(int) on a non-negative value: decimal digits, no padding.
RECURSIVE to_string(_)
to_string(n) ==
    IF n < 10 THEN <<Digits[n + 1]>>
    ELSE to_string(n \div 10) \o <<Digits[(n % 10) + 1]>>

\* s matches [0-9]+
IsDigits(s) == Len(s) >= 1 /\ \A k \in 1..Len(s) : s[k] \in DigitChars

\* s matches -?[0-9]+
IsIntLiteral(s) ==
    \/ IsDigits(s)
    \/ Len(s) >= 2 /\ s[1] = "-" /\ IsDigits(Tail(s))

\* s has the form <letter><n>, the shape of the names the generator issues
HasForm(letter, s) == Len(s) >= 2 /\ s[1] = letter /\ IsDigits(Tail(s))

(***************************************************************************)
(* AST (include/ast.hpp, include/tokens.hpp)                               *)
(***************************************************************************)
Token(v) == [value |-> v]

Null == [node |-> "null"]

NumberNode(t) == [node |-> "NumberNode", tok |-> Token(t)]

IdentifierNode(t) == [node |-> "IdentifierNode", tok |-> Token(t)]

StringLiteralNode(t) == [node |-> "StringLiteralNode", tok |-> Token(t)]

BinOpNode(l, op, r) ==
    [node |-> "BinOpNode", left |-> l, op_tok |-> Token(op), right |-> r]

Statement(l, r) == [node |-> "Statement", left |-> l, right |-> r]

Condition(l, op, r) ==
    [node |-> "Condition", left_expression |-> l, comparison |-> Token(op),
     right_expression |-> r]

IfStatement(c, b, e) ==
    [node |-> "IfStatement", if_condition |-> c, if_body |-> b, else_body |-> e]

WhileStatement(c, b) == [node |-> "WhileStatement", condition |-> c, body |-> b]

PrintStatement(t, e, s) ==
    [node |-> "PrintStatement", type |-> t, intExpr |-> e, strValue |-> s]

Assignment(id, e) ==
    [node |-> "Assignment", identifier |-> Token(id), expression |-> e]

\* ids is the sequence of identifier texts of the declaration
Declaration(t, ids, init) ==
    [node |-> "Declaration", declaration_type |-> Token(t),
     identifiers |-> [k \in 1..Len(ids) |-> Token(ids[k])], init_expr |-> init]

(***************************************************************************)
(* IR instructions (include/ir.hpp)                                        *)
(***************************************************************************)
AssignmentCode(v, l, op, r) ==
    [tag |-> "Assignment", var |-> v, left |-> l, op |-> op, right |-> r]

JumpCode(d) == [tag |-> "Jump", dist |-> d]

LabelCode(l) == [tag |-> "Label", label |-> l]

CompareCodeIR(l, op, r, j) ==
    [tag |-> "Compare", left |-> l, operation |-> op, right |-> r, jump |-> j]

PrintCodeIR(t, v) == [tag |-> "Print", type |-> t, value |-> v]

(***************************************************************************)
(* The process-wide instruction pool.  A pool is the sequence of its       *)
(* slots; a ptr is a slot index.  acquire interns: an instruction equal to *)
(* a pooled one gets that slot, any other gets a new slot.                 *)
(***************************************************************************)
EmptyPool == <<>>

pool_acquire(p, instr) ==
    IF \E k \in 1..Len(p) : p[k] = instr
    THEN [pool |-> p, ptr |-> CHOOSE k \in 1..Len(p) : p[k] = instr]
    ELSE [pool |-> Append(p, instr), ptr |-> Len(p) + 1]

make_assign(p, v, l, op, r) == pool_acquire(p, AssignmentCode(v, l, op, r))

make_jump(p, d) == pool_acquire(p, JumpCode(d))

make_label(p, l) == pool_acquire(p, LabelCode(l))

make_compare(p, l, op, r, j) == pool_acquire(p, CompareCodeIR(l, op, r, j))

make_print(p, t, v) == pool_acquire(p, PrintCodeIR(t, v))

(***************************************************************************)
(* IntermediateCodeGen (include/ir.hpp, src/ir.cpp).  A generator value g  *)
(* carries the members arr, identifiers, constants and the three counters, *)
(* the pool it allocates from, the message of the exception in flight      *)
(* ("" when none), and the log of the names handed out so far.           *)
(***************************************************************************)
NoError == ""

InitError == "Init only allowed for single variable declaration"

MapPut(m, k, v) == [x \in (DOMAIN m) \cup {k} |-> IF x = k THEN v ELSE m[x]]

NewIntermediateCodeGen(p) ==
    [arr |-> <<>>, identifiers |-> <<>>, constants |-> <<>>,
     tCounter |-> 1, lCounter |-> 1, sCounter |-> 1,
     pool |-> p, thrown |-> NoError, issued |-> <<>>]

\* append that leaves out an instruction the pool already held
append_dedup(g, acq) ==
    IF g.thrown # NoError \/ acq.pool = g.pool THEN g
    ELSE [g EXCEPT !.arr = Append(@, acq.ptr), !.pool = acq.pool]

\* arr.append(n), n being the result acq of a make_* call on g.pool.  While
\* an exception is in flight no statement of the generator runs.
append(g, acq) ==
    IF g.thrown # NoError THEN g
    ELSE [g EXCEPT !.arr = Append(@, acq.ptr), !.pool = acq.pool]

\* arr.append(make_assign(v, l, op, r)) and its four siblings
emit_assign(g, v, l, op, r) == append(g, make_assign(g.pool, v, l, op, r))

emit_jump(g, d) == append(g, make_jump(g.pool, d))

emit_label(g, l) == append(g, make_label(g.pool, l))

emit_compare(g, l, op, r, j) == append(g, make_compare(g.pool, l, op, r, j))

emit_print(g, t, v) == append(g, make_print(g.pool, t, v))

\* identifiers[k] = v;
set_identifier(g, k, v) == [g EXCEPT !.identifiers = MapPut(@, k, v)]

\* constants[k] = v;
set_constant(g, k, v) == [g EXCEPT !.constants = MapPut(@, k, v)]

\* nextTemp that reads the counter without advancing it
nextTemp_noinc(g) ==
    LET name == <<"T">> \o to_string(g.tCounter)
    IN [ret |-> name, g |-> [g EXCEPT !.issued = Append(@, name)]]

nextTemp(g) ==
    LET name == <<"T">> \o to_string(g.tCounter)
    IN [ret |-> name,
        g |-> [g EXCEPT !.tCounter = @ + 1, !.issued = Append(@, name)]]

\* nextLabel that reads the counter without advancing it (currentLabel)
nextLabel_stuck(g) ==
    LET name == <<"L">> \o to_string(g.lCounter)
    IN [ret |-> name, g |-> [g EXCEPT !.issued = Append(@, name)]]

nextLabel(g) ==
    LET name == <<"L">> \o to_string(g.lCounter)
    IN [ret |-> name,
        g |-> [g EXCEPT !.lCounter = @ + 1, !.issued = Append(@, name)]]

nextStringSym(g) ==
    LET name == <<"S">> \o to_string(g.sCounter)
    IN [ret |-> name,
        g |-> [g EXCEPT !.sCounter = @ + 1, !.issued = Append(@, name)]]

RECURSIVE exec_expr(_, _)
\* exec_expr_node(BinOpNode) that lowers the right child first
exec_expr_node_BinOp_rightfirst(bin, g) ==
    LET right == exec_expr(bin.right, g)
        left == exec_expr(bin.left, right.g)
        t == nextTemp(left.g)
    IN [ret |-> t.ret,
        g |-> emit_assign(set_identifier(t.g, t.ret, "int"),
                          t.ret, left.ret, bin.op_tok.value, right.ret)]

exec_expr_node_BinOp(bin, g) ==
    LET left == exec_expr(bin.left, g)
        right == exec_expr(bin.right, left.g)
        t == nextTemp(right.g)
    IN [ret |-> t.ret,
        g |-> emit_assign(set_identifier(t.g, t.ret, "int"),
                          t.ret, left.ret, bin.op_tok.value, right.ret)]

exec_expr_node_StringLiteral(str, g) ==
    LET sym == nextStringSym(g)
    IN [ret |-> sym.ret, g |-> set_constant(sym.g, sym.ret, str.tok.value)]

\* std::visit over the node kinds; every kind without an overload takes the
\* template, which returns the empty string
exec_expr(n, g) ==
    CASE n.node = "IdentifierNode" -> [ret |-> n.tok.value, g |-> g]
      [] n.node = "NumberNode" -> [ret |-> n.tok.value, g |-> g]
      [] n.node = "StringLiteralNode" -> exec_expr_node_StringLiteral(n, g)
      [] n.node = "BinOpNode" -> exec_expr_node_BinOp(n, g)
      [] OTHER -> [ret |-> <<>>, g |-> g]

\* exec_assignment that registers the name whether or not it is a key
exec_assignment_always(a, g) ==
    LET right == exec_expr(a.expression,
                           set_identifier(g, a.identifier.value, "string"))
    IN emit_assign(right.g, a.identifier.value, right.ret, "", <<>>)

exec_assignment(a, g) ==
    LET g1 == IF a.identifier.value \notin DOMAIN g.identifiers
              THEN set_identifier(g, a.identifier.value, "string")
              ELSE g
        right == exec_expr(a.expression, g1)
    IN emit_assign(right.g, a.identifier.value, right.ret, "", <<>>)

\* exec_condition that passes the label and the right operand to
\* make_compare in each other's place
exec_condition_swapped(c, g) ==
    LET left == exec_expr(c.left_expression, g)
        right == exec_expr(c.right_expression, left.g)
        trueLabel == nextLabel(right.g)
    IN [ret |-> trueLabel.ret,
        g |-> emit_compare(trueLabel.g, left.ret, c.comparison.value,
                           trueLabel.ret, right.ret)]

exec_condition(c, g) ==
    LET left == exec_expr(c.left_expression, g)
        right == exec_expr(c.right_expression, left.g)
        trueLabel == nextLabel(right.g)
    IN [ret |-> trueLabel.ret,
        g |-> emit_compare(trueLabel.g, left.ret, c.comparison.value,
                           right.ret, trueLabel.ret)]

\* exec_print that hands the statement's kind on to the instruction
exec_print_kind(p, g) ==
    IF p.type = "string" /\ p.strValue # <<>>
    THEN LET sym == nextStringSym(g)
         IN emit_print(set_constant(sym.g, sym.ret, p.strValue), "string", sym.ret)
    ELSE LET name == exec_expr(p.intExpr, g)
         IN emit_print(name.g, p.type, name.ret)

exec_print(p, g) ==
    IF p.type = "string"
    THEN IF p.strValue # <<>>
         THEN LET sym == nextStringSym(g)
              IN emit_print(set_constant(sym.g, sym.ret, p.strValue),
                            "string", sym.ret)
         ELSE LET name == exec_expr(p.intExpr, g)
              IN emit_print(name.g, "string", name.ret)
    ELSE LET name == exec_expr(p.intExpr, g)
         IN emit_print(name.g, "int", name.ret)

\* the for loop of exec_declaration cut short after the first identifier
DeclareAll_first(d, k, ids) ==
    IF Len(d.identifiers) = 0 THEN ids
    ELSE MapPut(ids, d.identifiers[1].value, d.declaration_type.value)

RECURSIVE DeclareAll(_, _, _)
\* the for loop of exec_declaration from position k on
DeclareAll(d, k, ids) ==
    IF k > Len(d.identifiers) THEN ids
    ELSE DeclareAll(d, k + 1,
                    MapPut(ids, d.identifiers[k].value, d.declaration_type.value))

\* exec_declaration that lowers the initializer before it checks the count
exec_declaration_latecheck(d, g) ==
    LET g1 == [g EXCEPT !.identifiers = DeclareAll(d, 1, @)]
    IN IF d.init_expr # Null
       THEN LET right == exec_expr(d.init_expr, g1)
            IN IF Len(d.identifiers) # 1
               THEN [right.g EXCEPT !.thrown = InitError]
               ELSE emit_assign(right.g, d.identifiers[1].value, right.ret, "", <<>>)
       ELSE g1

exec_declaration(d, g) ==
    LET g1 == [g EXCEPT !.identifiers = DeclareAll(d, 1, @)]
    IN IF d.init_expr # Null
       THEN IF Len(d.identifiers) # 1
            THEN [g1 EXCEPT !.thrown = InitError]
            ELSE LET varname == d.identifiers[1].value
                     right == exec_expr(d.init_expr, g1)
                 IN emit_assign(right.g, varname, right.ret, "", <<>>)
       ELSE g1

RECURSIVE exec_statement(_, _)
\* exec_if that allocates the end label before the else label
exec_if_swapped(i, g) ==
    LET thenLabel == exec_condition(i.if_condition, g)
        endLabel == nextLabel(thenLabel.g)
        elseLabel == nextLabel(endLabel.g)
        g1 == emit_jump(elseLabel.g, elseLabel.ret)
        g2 == emit_label(g1, thenLabel.ret)
        g3 == exec_statement(i.if_body, g2)
        g4 == emit_jump(g3, endLabel.ret)
        g5 == emit_label(g4, elseLabel.ret)
        g6 == IF i.else_body # Null THEN exec_statement(i.else_body, g5) ELSE g5
    IN emit_label(g6, endLabel.ret)

exec_if(i, g) ==
    LET thenLabel == exec_condition(i.if_condition, g)
        elseLabel == nextLabel(thenLabel.g)
        endLabel == nextLabel(elseLabel.g)
        g1 == emit_jump(endLabel.g, elseLabel.ret)
        g2 == emit_label(g1, thenLabel.ret)
        g3 == exec_statement(i.if_body, g2)
        g4 == emit_jump(g3, endLabel.ret)
        g5 == emit_label(g4, elseLabel.ret)
        g6 == IF i.else_body # Null THEN exec_statement(i.else_body, g5) ELSE g5
    IN emit_label(g6, endLabel.ret)

\* exec_while without the allocation of the unused bodyLabel
exec_while_nospare(w, g) ==
    LET startLabel == nextLabel(g)
        endLabel == nextLabel(startLabel.g)
        g1 == emit_label(endLabel.g, startLabel.ret)
        trueLabel == exec_condition(w.condition, g1)
        g2 == emit_jump(trueLabel.g, endLabel.ret)
        g3 == emit_label(g2, trueLabel.ret)
        g4 == exec_statement(w.body, g3)
        g5 == emit_jump(g4, startLabel.ret)
    IN emit_label(g5, endLabel.ret)

\* exec_while that opens the body with bodyLabel instead of the label the
\* condition returned
exec_while_bodyLabel(w, g) ==
    LET startLabel == nextLabel(g)
        bodyLabel == nextLabel(startLabel.g)
        endLabel == nextLabel(bodyLabel.g)
        g1 == emit_label(endLabel.g, startLabel.ret)
        trueLabel == exec_condition(w.condition, g1)
        g2 == emit_jump(trueLabel.g, endLabel.ret)
        g3 == emit_label(g2, bodyLabel.ret)
        g4 == exec_statement(w.body, g3)
        g5 == emit_jump(g4, startLabel.ret)
    IN emit_label(g5, endLabel.ret)

exec_while(w, g) ==
    LET startLabel == nextLabel(g)
        bodyLabel == nextLabel(startLabel.g)
        endLabel == nextLabel(bodyLabel.g)
        g1 == emit_label(endLabel.g, startLabel.ret)
        trueLabel == exec_condition(w.condition, g1)
        g2 == emit_jump(trueLabel.g, endLabel.ret)
        g3 == emit_label(g2, trueLabel.ret)
        g4 == exec_statement(w.body, g3)
        g5 == emit_jump(g4, startLabel.ret)
    IN emit_label(g5, endLabel.ret)

exec_statement_node_Statement(st, g) ==
    exec_statement(st.right, exec_statement(st.left, g))

\* null is skipped; std::visit over the node kinds, every kind without an
\* overload takes the template, which does nothing.  While an exception is
\* in flight no statement of the generator runs.
exec_statement(n, g) ==
    IF g.thrown # NoError \/ n = Null THEN g
    ELSE CASE n.node = "Statement" -> exec_statement_node_Statement(n, g)
           [] n.node = "IfStatement" -> exec_if(n, g)
           [] n.node = "WhileStatement" -> exec_while(n, g)
           [] n.node = "PrintStatement" -> exec_print(n, g)
           [] n.node = "Declaration" -> exec_declaration(n, g)
           [] n.node = "Assignment" -> exec_assignment(n, g)
           [] OTHER -> g

\* the constructor: members at their initializers, then exec_statement(root)
IntermediateCodeGen(root, p) == exec_statement(root, NewIntermediateCodeGen(p))

\* GeneratedIR{arr, identifiers, constants}
get(g) == [code |-> g.arr, identifiers |-> g.identifiers, constants |-> g.constants]

\* the instructions a sequence of pool ptrs stands for
Deref(p, code) == [k \in 1..Len(code) |-> p[code[k]]]

(***************************************************************************)
(* The backend (include/codegen.hpp, src/codegen.cpp).  Text is a sequence  *)
(* of pieces whose concatenation is the text: a character the code appends  *)
(* or inspects on its own is a one-character piece, a literal the code      *)
(* writes out unchanged is one piece (one piece per line for a raw string   *)
(* literal).  out is the sequence of the chunks that were added to the      *)
(* buffer: a line chunk per pr call, and a group chunk per loop over an     *)
(* unordered_map, whose lines come in the map's unspecified order.          *)
(***************************************************************************)
\* the value of a char as unsigned char
CharCode(c) ==
    CASE c = "\t" -> 9
      [] c = "\n" -> 10
      [] c = " " -> 32
      [] c = "!" -> 33
      [] c = "*" -> 42
      [] c = "+" -> 43
      [] c = "-" -> 45
      [] c = "/" -> 47
      [] c = "<" -> 60
      [] c = "=" -> 61
      [] c = ">" -> 62
      [] c = "S" -> 83
      [] c = "T" -> 84
      [] c = "[" -> 91
      [] c = "a" -> 97
      [] c = "c" -> 99
      [] c = "d" -> 100
      [] c = "e" -> 101
      [] c = "h" -> 104
      [] c = "i" -> 105
      [] c = "l" -> 108
      [] c = "o" -> 111
      [] c = "x" -> 120
      [] c = "\\377" -> 255
      [] c \in DigitChars -> 48 + (CHOOSE d \in 0..9 : Digits[d + 1] = c)
      [] OTHER -> 0

\* the terminator that s[s.size()] reads
NUL == "\\0"

\* a[k] of the C++ code, for k up to a.size()
CharAt(a, k) == IF k + 1 <= Len(a) THEN a[k + 1] ELSE NUL

\* std::isdigit
isdigit(c) == c \in DigitChars

\* the characters of a string the model otherwise keeps whole
string_view(s) ==
    CASE s = "" -> <<>>
      [] s = "*" -> <<"*">>
      [] s = "+" -> <<"+">>
      [] s = "-" -> <<"-">>
      [] s = "/" -> <<"/">>
      [] s = "<" -> <<"<">>
      [] s = ">" -> <<">">>
      [] s = "!=" -> <<"!", "=">>
      [] s = "<=" -> <<"<", "=">>
      [] s = "==" -> <<"=", "=">>
      [] s = ">=" -> <<">", "=">>

RECURSIVE sv_less(_, _)
\* std::string_view operator< : lexicographic on the character values
sv_less(a, b) ==
    IF b = <<>> THEN FALSE
    ELSE IF a = <<>> THEN TRUE
    ELSE IF CharCode(Head(a)) # CharCode(Head(b))
         THEN CharCode(Head(a)) < CharCode(Head(b))
         ELSE sv_less(Tail(a), Tail(b))

StrMap(k, v) == [key |-> k, val |-> v]

RECURSIVE lower_bound(_, _, _, _)
\* std::lower_bound with the comparator e.key < k: binary search over
\* table[first + 1 .. first + count], the index (from 0) of the result
lower_bound(table, k, first, count) ==
    IF count = 0 THEN first
    ELSE LET step == count \div 2
             it == first + step
         IN IF sv_less(string_view(table[it + 1].key), string_view(k))
            THEN lower_bound(table, k, it + 1, count - (step + 1))
            ELSE lower_bound(table, k, first, step)

\* the shared body of op_to_asm and cmp_to_jmp: the text of the entry found,
\* or the empty string
table_lookup(table, k) ==
    LET it == lower_bound(table, k, 0, Len(table))
    IN IF it # Len(table) /\ table[it + 1].key = k
       THEN <<table[it + 1].val>>
       ELSE <<>>

op_to_asm_table ==
    <<StrMap("*", "imul"), StrMap("+", "add"), StrMap("-", "sub"),
      StrMap("/", "idiv")>>

op_to_asm(op) == table_lookup(op_to_asm_table, op)

\* the table of cmp_to_jmp with "<=" ahead of "<", out of order for
\* lower_bound
cmp_to_jmp_table_unsorted ==
    <<StrMap("!=", "jne"), StrMap("<=", "jle"), StrMap("<", "jl"),
      StrMap("==", "je"), StrMap(">", "jg"), StrMap(">=", "jge")>>

cmp_to_jmp_table ==
    <<StrMap("!=", "jne"), StrMap("<", "jl"), StrMap("<=", "jle"),
      StrMap("==", "je"), StrMap(">", "jg"), StrMap(">=", "jge")>>

cmp_to_jmp(c) == table_lookup(cmp_to_jmp_table, c)

\* the constructor: arr is a reference to the bundle's array
CodeGenerator(arr, identifiers, constants, tempmap) ==
    [arr |-> arr, ids |-> identifiers, consts |-> constants,
     tempmap |-> tempmap, out |-> <<>>,
     need_print_num |-> FALSE, need_print_string |-> FALSE]

\* a chunk of out: one pr call
Line(s) == [line |-> s]

\* a chunk of out: the pr calls of one loop over an unordered_map
Group(S) == [group |-> S]

\* out.insert(out.end(), s.begin(), s.end()); out.emplace_back('\n');
pr(cg, s) == [cg EXCEPT !.out = Append(@, Line(s \o <<"\n">>))]

\* pr(s) for every s of S, the texts a loop over an unordered_map makes
pr_each(cg, S) == [cg EXCEPT !.out = Append(@, Group({s \o <<"\n">> : s \in S}))]

\* handleVar that brackets every operand
handleVar_bracket(a) == <<"[">> \o a \o <<"]">>

handleVar(a) ==
    IF isdigit(CharAt(a, 0)) \/ (CharAt(a, 0) = "-" /\ isdigit(CharAt(a, 1)))
    THEN a
    ELSE <<"[">> \o a \o <<"]">>

gen_variables_S ==
    <<"\tdigitSpace resb 100\n",
      "\tdigitSpacePos resb 8\n",
      "\n">>

gen_start_S ==
    <<"section .text\n",
      "\tglobal _start\n",
      "\n",
      "_start:\n">>

gen_end_S ==
    <<"\tmov rax, 60      ; __NR_exit\n",
      "\tmov rdi, 0       ; status\n",
      "\tsyscall\n",
      "\n">>

gen_print_num_function_S ==
    <<"\n",
      "print_num:\n",
      "    mov rcx, digitSpace       ; buffer start\n",
      "    mov rbx, 10\n",
      "    mov rax, rdi              ; number\n",
      "\n",
      "    ; handle negative\n",
      "    cmp rax, 0\n",
      "    jge .loop\n",
      "    neg rax\n",
      "    mov byte [rcx], '-'\n",
      "    inc rcx\n",
      "\n",
      ".loop:\n",
      "    xor rdx, rdx\n",
      "    div rbx                   ; rax = rax/10, rdx = rax%10\n",
      "    add dl, '0'\n",
      "    mov [rcx], dl\n",
      "    inc rcx\n",
      "    test rax, rax\n",
      "    jnz .loop\n",
      "\n",
      "    ; rcx now points one past last char\n",
      "    ; reverse-print\n",
      "    mov rsi, rcx              ; rsi = end\n",
      "    dec rsi                   ; last digit\n",
      "    mov rdx, 1                ; write 1 byte at a time\n",
      "\n",
      ".rev_loop:\n",
      "    mov rax, 1                ; write\n",
      "    mov rdi, 1                ; stdout\n",
      "    syscall\n",
      "    dec rsi\n",
      "    cmp rsi, digitSpace\n",
      "    jl .newline\n",
      "    jmp .rev_loop\n",
      "\n",
      ".newline:\n",
      "    mov byte [digitSpacePos], 10\n",
      "    mov rax, 1\n",
      "    mov rdi, 1\n",
      "    mov rsi, digitSpacePos\n",
      "    mov rdx, 1\n",
      "    syscall\n",
      "    ret">>

\* the print_string routine with the length set to 1 before the write
gen_print_string_function_S_one ==
    <<"\n",
      "print_string:\n",
      "    ; rdi = char*\n",
      "    mov rsi, rdi\n",
      "    xor rdx, rdx\n",
      "\n",
      ".len_loop:\n",
      "    cmp byte [rsi + rdx], 0\n",
      "    je .write\n",
      "    inc rdx\n",
      "    jmp .len_loop\n",
      "\n",
      ".write:\n",
      "    mov rdx, 1\n",
      "    mov rax, 1      ; sys_write\n",
      "    mov rdi, 1      ; stdout\n",
      "    syscall\n",
      "    ret">>

gen_print_string_function_S ==
    <<"\n",
      "print_string:\n",
      "    ; rdi = char*\n",
      "    mov rsi, rdi\n",
      "    xor rdx, rdx\n",
      "\n",
      ".len_loop:\n",
      "    cmp byte [rsi + rdx], 0\n",
      "    je .write\n",
      "    inc rdx\n",
      "    jmp .len_loop\n",
      "\n",
      ".write:\n",
      "    mov rax, 1      ; sys_write\n",
      "    mov rdi, 1      ; stdout\n",
      "    syscall\n",
      "    ret">>

\* "\t" + kv.first + " resb 8"
resb_line(k) == <<"\t">> \o k \o <<" resb 8">>

gen_variables(cg) ==
    LET c1 == pr(cg, <<"section .bss">>)
        c2 == IF cg.need_print_num THEN pr(c1, gen_variables_S) ELSE c1
    IN pr_each(c2, {resb_line(k) : k \in DOMAIN cg.ids})

\* append_u8 that pads every value to three digits
append_u8_padded(buf, v) ==
    buf \o <<Digits[(v \div 100) + 1], Digits[((v % 100) \div 10) + 1],
             Digits[((v % 100) % 10) + 1]>>

\* the digits of v, 0..255, without leading zeros
append_u8(buf, v) ==
    IF v >= 100
    THEN buf \o <<Digits[(v \div 100) + 1], Digits[((v % 100) \div 10) + 1],
                  Digits[((v % 100) % 10) + 1]>>
    ELSE IF v >= 10
         THEN buf \o <<Digits[(v \div 10) + 1], Digits[(v % 10) + 1]>>
         ELSE buf \o <<Digits[v + 1]>>

\* the char arrays, terminator included
DB_PREFIX == <<"\t", "d", "b", " ", NUL>>

COMMA_SPACE == <<",", " ", NUL>>

NL_NUL == <<"1", "0", ",", " ", "0", NUL>>

\* the array a from its k-th element (from 0) up to std::end(a) - 1
chars_from(a, k) == SubSeq(a, k + 1, Len(a) - 1)

RECURSIVE string_bytes(_, _)
\* for (unsigned char c: kv.second) { append_u8(buf, c); buf += ", "; }
string_bytes(buf, s) ==
    IF s = <<>> THEN buf
    ELSE string_bytes(append_u8(buf, CharCode(Head(s))) \o chars_from(COMMA_SPACE, 0),
                      Tail(s))

\* the buffer gen_start fills for the constant named k with text s; DB_PREFIX
\* is copied from its second character on
db_line(k, s) ==
    string_bytes(<<"\t">> \o k \o <<" ">> \o chars_from(DB_PREFIX, 1), s)
        \o chars_from(NL_NUL, 0)

gen_start(cg) ==
    LET c1 == pr(cg, <<"section .data">>)
        c2 == pr_each(c1, {db_line(k, cg.consts[k]) : k \in DOMAIN cg.consts})
    IN pr(c2, gen_start_S)

gen_end(cg) == pr(cg, gen_end_S)

\* gen_assignment that loads every copy source with mov
gen_assignment_mov(cg, a) ==
    IF a.op = ""
    THEN pr(pr(cg, <<"\tmov rax, ">> \o handleVar(a.left)),
            <<"\tmov ">> \o handleVar(a.var) \o <<", rax">>)
    ELSE LET c1 == pr(cg, <<"\tmov rax, ">> \o handleVar(a.left))
             c2 == IF a.op = "/"
                   THEN pr(pr(pr(c1, <<"\tcqo">>),
                              <<"\tmov rbx, ">> \o handleVar(a.right)),
                           <<"\tidiv rbx">>)
                   ELSE pr(pr(c1, <<"\tmov rbx, ">> \o handleVar(a.right)),
                           <<"\t">> \o op_to_asm(a.op) \o <<" rax, rbx">>)
         IN pr(c2, <<"\tmov ">> \o handleVar(a.var) \o <<", rax">>)

\* gen_assignment that sign-extends after loading the divisor
gen_assignment_latecqo(cg, a) ==
    IF a.op = ""
    THEN LET c1 == IF a.left \in DOMAIN cg.consts
                   THEN pr(cg, <<"\tlea rax, [rel ">> \o a.left \o <<"]">>)
                   ELSE pr(cg, <<"\tmov rax, ">> \o handleVar(a.left))
         IN pr(c1, <<"\tmov ">> \o handleVar(a.var) \o <<", rax">>)
    ELSE LET c1 == pr(cg, <<"\tmov rax, ">> \o handleVar(a.left))
             c2 == IF a.op = "/"
                   THEN pr(pr(pr(c1, <<"\tmov rbx, ">> \o handleVar(a.right)),
                              <<"\tcqo">>),
                           <<"\tidiv rbx">>)
                   ELSE pr(pr(c1, <<"\tmov rbx, ">> \o handleVar(a.right)),
                           <<"\t">> \o op_to_asm(a.op) \o <<" rax, rbx">>)
         IN pr(c2, <<"\tmov ">> \o handleVar(a.var) \o <<", rax">>)

gen_assignment(cg, a) ==
    IF a.op = ""
    THEN LET c1 == IF a.left \in DOMAIN cg.consts
                   THEN pr(cg, <<"\tlea rax, [rel ">> \o a.left \o <<"]">>)
                   ELSE pr(cg, <<"\tmov rax, ">> \o handleVar(a.left))
         IN pr(c1, <<"\tmov ">> \o handleVar(a.var) \o <<", rax">>)
    ELSE LET c1 == pr(cg, <<"\tmov rax, ">> \o handleVar(a.left))
             c2 == IF a.op = "/"
                   THEN pr(pr(pr(c1, <<"\tcqo">>),
                              <<"\tmov rbx, ">> \o handleVar(a.right)),
                           <<"\tidiv rbx">>)
                   ELSE pr(pr(c1, <<"\tmov rbx, ">> \o handleVar(a.right)),
                           <<"\t">> \o op_to_asm(a.op) \o <<" rax, rbx">>)
         IN pr(c2, <<"\tmov ">> \o handleVar(a.var) \o <<", rax">>)

gen_jump(cg, j) == pr(cg, <<"\tjmp ">> \o j.dist)

gen_label(cg, l) == pr(cg, l.label \o <<":">>)

gen_compare(cg, c) ==
    LET c1 == pr(cg, <<"\tmov rax, ">> \o handleVar(c.left))
        c2 == pr(c1, <<"\tcmp rax, ">> \o handleVar(c.right))
    IN pr(c2, <<"\t">> \o cmp_to_jmp(c.operation) \o <<" ">> \o c.jump)

\* gen_print that loads every string through memory
gen_print_deref(cg, p) ==
    IF p.type = "int"
    THEN pr(pr(cg, <<"\tmov rdi, ">> \o handleVar(p.value)),
            <<"\tcall print_num">>)
    ELSE pr(pr(cg, <<"\tmov rdi, [">> \o p.value \o <<"]">>),
            <<"\tcall print_string">>)

gen_print(cg, p) ==
    IF p.type = "int"
    THEN pr(pr(cg, <<"\tmov rdi, ">> \o handleVar(p.value)),
            <<"\tcall print_num">>)
    ELSE LET c1 == IF p.value \in DOMAIN cg.consts
                   THEN pr(cg, <<"\tmov rdi, ">> \o p.value)
                   ELSE pr(cg, <<"\tmov rdi, [">> \o p.value \o <<"]">>)
         IN pr(c1, <<"\tcall print_string">>)

\* the std::visit of gen_code on one instruction
gen_instr(cg, ir) ==
    CASE ir.tag = "Assignment" -> gen_assignment(cg, ir)
      [] ir.tag = "Jump" -> gen_jump(cg, ir)
      [] ir.tag = "Label" -> gen_label(cg, ir)
      [] ir.tag = "Compare" -> gen_compare(cg, ir)
      [] ir.tag = "Print" -> gen_print(cg, ir)

RECURSIVE gen_code_from(_, _, _)
\* the loop of gen_code from position k on; p is the pool the ptrs point into
gen_code_from(cg, p, k) ==
    IF k > Len(cg.arr) \/ Len(cg.out) < 0 THEN cg
    ELSE gen_code_from(gen_instr(cg, p[cg.arr[k]]), p, k + 1)

gen_code(cg, p) == gen_code_from(cg, p, 1)

gen_print_num_function(cg) == pr(cg, gen_print_num_function_S)

gen_print_string_function(cg) == pr(cg, gen_print_string_function_S)

\* the pre-scan of writeAsm
prescan(cg, p) ==
    LET prints == {k \in 1..Len(cg.arr) : p[cg.arr[k]].tag = "Print"}
    IN [cg EXCEPT
          !.need_print_string = \E k \in prints : p[cg.arr[k]].type = "string",
          !.need_print_num = \E k \in prints : p[cg.arr[k]].type # "string"]

\* writeAsm that emits the helper routines ahead of the exit sequence
writeAsm_helpersfirst(cg, p) ==
    LET c0 == prescan([cg EXCEPT !.out = <<>>, !.need_print_num = FALSE,
                                 !.need_print_string = FALSE], p)
        c1 == gen_code(gen_start(gen_variables(c0)), p)
        c2 == IF c1.need_print_num THEN gen_print_num_function(c1) ELSE c1
        c3 == IF c2.need_print_string THEN gen_print_string_function(c2) ELSE c2
    IN gen_end(c3)

\* writeAsm that reserves digitSpace and emits print_num for string prints
writeAsm_anyprint(cg, p) ==
    LET c0 == prescan([cg EXCEPT !.out = <<>>, !.need_print_num = FALSE,
                                 !.need_print_string = FALSE], p)
        c1 == [c0 EXCEPT !.need_print_num = @ \/ c0.need_print_string]
        c2 == gen_end(gen_code(gen_start(gen_variables(c1)), p))
        c3 == IF c2.need_print_num THEN gen_print_num_function(c2) ELSE c2
    IN IF c3.need_print_string THEN gen_print_string_function(c3) ELSE c3

\* writeAsm up to the point where out is complete; f.write(out) follows
writeAsm(cg, p) ==
    LET c0 == prescan([cg EXCEPT !.out = <<>>, !.need_print_num = FALSE,
                                 !.need_print_string = FALSE], p)
        c1 == gen_end(gen_code(gen_start(gen_variables(c0)), p))
        c2 == IF c1.need_print_num THEN gen_print_num_function(c1) ELSE c1
    IN IF c2.need_print_string THEN gen_print_string_function(c2) ELSE c2

(***************************************************************************)
(* The ASTs handed to the generator.  Every If/While condition is a        *)
(* Condition node and every expression child that is evaluated is non-null *)
(* (the code dereferences both unchecked).                                 *)
(***************************************************************************)
MaxNest == 3

MaxRuns == 2

Idents == {<<"i">>, <<"T", "1">>, <<"S", "1">>}

Numbers == {<<"1">>, <<"1", "0">>}

StrLits == {<<"h", "i">>}

LeafExprs ==
    {IdentifierNode(v) : v \in Idents} \cup {NumberNode(v) : v \in Numbers}
        \cup {StringLiteralNode(v) : v \in StrLits}

IPlusOne == BinOpNode(IdentifierNode(<<"i">>), "+", NumberNode(<<"1">>))

NestedExprs ==
    {BinOpNode(IPlusOne, "*", NumberNode(<<"1", "0">>)),
     BinOpNode(NumberNode(<<"1", "0">>), "-", IPlusOne),
     BinOpNode(IPlusOne, "/", IPlusOne),
     BinOpNode(BinOpNode(IPlusOne, "*", IPlusOne), "-", StringLiteralNode(<<"h", "i">>))}

\* a statement node where an expression is expected takes the template
\* overload of exec_expr_node
MisplacedExprs == {Statement(Null, Null)}

SmallExprs == LeafExprs \cup {IPlusOne}

Exprs ==
    LeafExprs \cup {BinOpNode(l, "+", r) : l \in LeafExprs, r \in LeafExprs}
        \cup NestedExprs \cup MisplacedExprs

CmpOps == {"==", "!=", "<", "<=", ">", ">="}

IdLists ==
    {<<v>> : v \in Idents} \cup {<<>>, <<<<"i">>, <<"T", "1">>>>, <<<<"i">>, <<"i">>>>}

Declarations ==
    {Declaration(t, ids, init) :
        t \in {"int", "string"}, ids \in IdLists, init \in {Null} \cup SmallExprs}

Assignments == {Assignment(v, e) : v \in Idents, e \in Exprs}

Prints ==
    {PrintStatement("int", e, <<>>) : e \in Exprs}
        \cup {PrintStatement("string", e, <<>>) : e \in SmallExprs}
        \cup {PrintStatement("string", Null, <<"h", "i">>),
              PrintStatement("string", IPlusOne, <<"h", "i">>),
              PrintStatement("float", IPlusOne, <<>>),
              PrintStatement("", StringLiteralNode(<<"h", "i">>), <<"h", "i">>)}

SimpleStmts == Declarations \cup Assignments \cup Prints

\* statements that set up the identifier table before or after another one
SetupStmts ==
    {Declaration("int", <<<<"i">>>>, Null),
     Declaration("string", <<<<"i">>>>, Null),
     Declaration("string", <<<<"T", "1">>>>, Null),
     Declaration("int", <<<<"S", "1">>>>, Null),
     Assignment(<<"i">>, StringLiteralNode(<<"h", "i">>)),
     Assignment(<<"T", "1">>, IPlusOne)}

FlatPrograms ==
    SimpleStmts \cup {Statement(s, Null) : s \in SimpleStmts}
        \cup {Statement(a, Statement(s, Null)) : a \in SetupStmts, s \in SimpleStmts}
        \cup {Statement(s, a) : a \in SetupStmts, s \in SimpleStmts}

\* Scenario C: while (i < 10) { i = i + 1; }
ScenarioC ==
    WhileStatement(Condition(IdentifierNode(<<"i">>), "<", NumberNode(<<"1", "0">>)),
                   Statement(Assignment(<<"i">>, IPlusOne), Null))

\* Scenario B: if (a == 1) { print(a); } else { print(0); }, on variable i
ScenarioB ==
    IfStatement(Condition(IdentifierNode(<<"i">>), "==", NumberNode(<<"1">>)),
                PrintStatement("int", IdentifierNode(<<"i">>), <<>>),
                PrintStatement("int", NumberNode(<<"0">>), <<>>))

Conds ==
    {Condition(l, op, r) : l \in SmallExprs, op \in {"<"}, r \in SmallExprs}
        \cup {Condition(IdentifierNode(<<"i">>), op, NumberNode(<<"1">>)) : op \in CmpOps}
        \cup {Condition(IPlusOne, "<", Statement(Null, Null))}

CondPrograms ==
    {IfStatement(c, Assignment(<<"i">>, IPlusOne), Null) : c \in Conds}
        \cup {WhileStatement(c, PrintStatement("string", Null, <<"h", "i">>)) : c \in Conds}

\* the bodies and siblings that nested control flow is built around
BaseStmts ==
    {Assignment(<<"i">>, IPlusOne),
     PrintStatement("int", IPlusOne, <<>>),
     ScenarioC,
     Declaration("int", <<<<"i">>, <<"T", "1">>>>, NumberNode(<<"1">>))}

WrapCond == Condition(IPlusOne, "<", NumberNode(<<"1", "0">>))

Sibling == ScenarioB

\* one more level of If / While / Statement around each member of S
Wrap(S) ==
    {IfStatement(WrapCond, b, Null) : b \in S}
        \cup {IfStatement(WrapCond, b, Sibling) : b \in S}
        \cup {IfStatement(WrapCond, Sibling, b) : b \in S}
        \cup {WhileStatement(WrapCond, b) : b \in S}
        \cup {Statement(b, Null) : b \in S}
        \cup {Statement(b, Sibling) : b \in S}
        \cup {Statement(Sibling, b) : b \in S}

RECURSIVE NestLevel(_)
\* the programs whose control-flow nesting is exactly n levels over BaseStmts
NestLevel(n) == IF n = 0 THEN BaseStmts ELSE Wrap(NestLevel(n - 1))

NestedPrograms == UNION {NestLevel(n) : n \in 0..MaxNest}

\* the scenarios with their variable declared int first
TypedPrograms ==
    {Statement(Declaration("int", <<<<"i">>>>, Null), p) :
        p \in {ScenarioB, ScenarioC, IfStatement(WrapCond, ScenarioC, ScenarioB)}}

\* int x = 2 + 3;
DeclExample ==
    Declaration("int", <<<<"x">>>>,
                BinOpNode(NumberNode(<<"2">>), "+", NumberNode(<<"3">>)))

\* print("hello");
PrintExample == PrintStatement("string", Null, <<"h", "e", "l", "l", "o">>)

\* i = "hi"; print(i); print((i + 1) / 10);
StringVarExample ==
    Statement(Assignment(<<"i">>, StringLiteralNode(<<"h", "i">>)),
              Statement(PrintStatement("string", IdentifierNode(<<"i">>), <<>>),
                        PrintStatement("int",
                                       BinOpNode(IPlusOne, "/", NumberNode(<<"1", "0">>)),
                                       <<>>)))

\* a print of a string literal followed by another print
MixedPrograms ==
    {Statement(PrintStatement("string", Null, <<"h", "i">>), Statement(s, Null)) :
        s \in Prints} \cup {StringVarExample}

ASTs ==
    FlatPrograms \cup CondPrograms \cup NestedPrograms \cup TypedPrograms
        \cup MixedPrograms
        \cup {ScenarioB, ScenarioC, DeclExample, PrintExample}

\* i = i + 1; int i, T1 = i + 1;
LateInit ==
    Statement(Assignment(<<"i">>, IPlusOne),
              Declaration("int", <<<<"i">>, <<"T", "1">>>>, IPlusOne))

\* what the source file may have become when the loop reads it again
EditedASTs == {ScenarioC, LateInit}

(***************************************************************************)
(* The compile loop of main (src/main.cpp): parse, construct the           *)
(* generator, get the bundle, run the backend, wait for a line.            *)
(***************************************************************************)
VARIABLES pc, g_ast_root, irgen, gen, codegen, file, pool, runs, history, cpu

vars == <<pc, g_ast_root, irgen, gen, codegen, file, pool, runs, history, cpu>>

\* the target path before anything was written to it
NoFile == [absent |-> TRUE]

\* a local object outside its lifetime
NoObject == [absent |-> TRUE]

Init ==
    /\ pc = "parse"
    /\ g_ast_root = Null
    /\ irgen = NoObject
    /\ gen = NoObject
    /\ codegen = NoObject
    /\ file = NoFile
    /\ pool = EmptyPool
    /\ runs = 0
    /\ history = <<>>
    /\ cpu = NoObject

\* the ASTs yyparse can leave in g_ast_root at this iteration
Sources == IF runs = 0 THEN ASTs ELSE {g_ast_root} \cup EditedASTs

\* yyparse() == 0: the parser has built g_ast_root
Parse ==
    /\ pc = "parse"
    /\ runs < MaxRuns
    /\ \E ast \in Sources : g_ast_root' = ast
    /\ runs' = runs + 1
    /\ pc' = "irgen"
    /\ UNCHANGED <<irgen, gen, codegen, file, pool, history, cpu>>

\* yyparse() != 0: "Parsing failed."
ParseFailed ==
    /\ pc = "parse"
    /\ runs < MaxRuns
    /\ runs' = runs + 1
    /\ pc' = "wait"
    /\ UNCHANGED <<g_ast_root, irgen, gen, codegen, file, pool, history, cpu>>

\* pseu::ir::IntermediateCodeGen irgen(g_ast_root);
Construct ==
    /\ pc = "irgen"
    /\ LET g == IntermediateCodeGen(g_ast_root, pool)
       IN /\ irgen' = g
          /\ pool' = g.pool
          /\ pc' = IF g.thrown # NoError THEN "catch" ELSE "get"
    /\ UNCHANGED <<g_ast_root, gen, codegen, file, runs, history, cpu>>

\* auto gen = irgen.get();  history records the bundle as --ir prints it
Get ==
    /\ pc = "get"
    /\ gen' = get(irgen)
    /\ history' = Append(history,
                         [root |-> g_ast_root,
                          code |-> Deref(pool, irgen.arr),
                          identifiers |-> irgen.identifiers,
                          constants |-> irgen.constants])
    /\ pc' = "codegen"
    /\ UNCHANGED <<g_ast_root, irgen, codegen, file, pool, runs, cpu>>

\* CodeGenerator codegen(gen.code, gen.identifiers, gen.constants);
\* codegen.writeAsm(cfg.target_path);  the target file is opened for
\* writing and takes the whole of out
Codegen ==
    /\ pc = "codegen"
    /\ LET cg == writeAsm(CodeGenerator(gen.code, gen.identifiers,
                                        gen.constants, <<>>), pool)
       IN /\ codegen' = cg
          /\ file' = cg.out
    /\ pc' = "wait"
    /\ UNCHANGED <<g_ast_root, irgen, gen, pool, runs, history, cpu>>

\* catch (const std::exception &e): the message is printed
Catch ==
    /\ pc = "catch"
    /\ pc' = "wait"
    /\ UNCHANGED <<g_ast_root, irgen, gen, codegen, file, pool, runs, history, cpu>>

\* The try block is left: irgen, gen and codegen are destroyed and drop
\* their ptrs.
\* The pool either keeps the unreferenced slots or reclaims them.
LeaveScope ==
    /\ irgen' = NoObject
    /\ gen' = NoObject
    /\ codegen' = NoObject
    /\ pool' \in {pool, EmptyPool}

\* std::getline reads a line other than "q;"
Continue ==
    /\ pc = "wait"
    /\ LeaveScope
    /\ pc' = "parse"
    /\ UNCHANGED <<g_ast_root, file, runs, history, cpu>>

\* std::getline reads "q;"
Quit ==
    /\ pc = "wait"
    /\ LeaveScope
    /\ pc' = "exit"
    /\ UNCHANGED <<g_ast_root, file, runs, history, cpu>>

Next ==
    \/ Parse
    \/ ParseFailed
    \/ Construct
    \/ Get
    \/ Codegen
    \/ Catch
    \/ Continue
    \/ Quit

Spec == Init /\ [][Next]_vars

(***************************************************************************)
(* Views of the state used by the properties                               *)
(***************************************************************************)
\* irgen.get() has returned a bundle and it is still alive
HasBundle == gen # NoObject

\* the instruction stream of the bundle
Code == Deref(pool, gen.code)

Instrs(g) == Deref(g.pool, g.arr)

\* the instructions g has emitted beyond those of the earlier state from
Emitted(g, from) == SubSeq(Instrs(g), Len(from.arr) + 1, Len(g.arr))

Fresh == NewIntermediateCodeGen(EmptyPool)

LabelName(n) == <<"L">> \o to_string(n)

JumpTargets(code) ==
    {code[k].dist : k \in {j \in 1..Len(code) : code[j].tag = "Jump"}}
        \cup {code[k].jump : k \in {j \in 1..Len(code) : code[j].tag = "Compare"}}

LabelPositions(code, name) ==
    {k \in 1..Len(code) : code[k].tag = "Label" /\ code[k].label = name}

CountTag(code, tag) == Cardinality({k \in 1..Len(code) : code[k].tag = tag})

\* the places of the root where an If or While is lowered and ends the
\* stream: the root itself, or the right child of a root Statement.  Each is
\* the node together with the generator state its lowering starts from.
Sites(kind) ==
    IF g_ast_root.node = kind
    THEN {[n |-> g_ast_root, g0 |-> Fresh]}
    ELSE IF g_ast_root.node = "Statement" /\ g_ast_root.right.node = kind
         THEN {[n |-> g_ast_root.right,
                g0 |-> exec_statement(g_ast_root.left, Fresh)]}
         ELSE {}

(***************************************************************************)
(* C1..C10                                                                 *)
(***************************************************************************)
\* C1: in every stream the generator produces, every Jump target and every
\* Compare target is the name of exactly one Label instruction of the stream.
C1_TargetsResolveOnce ==
    HasBundle =>
        \A t \in JumpTargets(Code) : Cardinality(LabelPositions(Code, t)) = 1

\* a bundle for an If whose then-body is a While, with an else-body
C1_Witness ==
    /\ HasBundle
    /\ g_ast_root.node = "IfStatement"
    /\ g_ast_root.if_body.node = "WhileStatement"
    /\ g_ast_root.else_body # Null
    /\ CountTag(Code, "Compare") >= 3
    /\ Cardinality(JumpTargets(Code)) >= 8

\* the stream the lowering of the If node i from state g0 has to leave:
\* what is there after the condition's operands, Compare -> T, Jump E,
\* Label T, then-body, Jump X, Label E, else-body, Label X, with T, E, X
\* numbered consecutively and both bodies lowered after all three
IfExpected(i, g0) ==
    LET c == i.if_condition
        l == exec_expr(c.left_expression, g0)
        r == exec_expr(c.right_expression, l.g)
        n == r.g.lCounter
        b0 == [r.g EXCEPT !.lCounter = n + 3]
        b1 == exec_statement(i.if_body, b0)
        e1 == exec_statement(i.else_body, b1)
    IN Instrs(r.g)
         \o <<CompareCodeIR(l.ret, c.comparison.value, r.ret, LabelName(n)),
              JumpCode(LabelName(n + 1)),
              LabelCode(LabelName(n))>>
         \o Emitted(b1, b0)
         \o <<JumpCode(LabelName(n + 2)), LabelCode(LabelName(n + 1))>>
         \o Emitted(e1, b1)
         \o <<LabelCode(LabelName(n + 2))>>

\* C2: lowering If(cond, then, else?) emits Compare -> T, Jump E, Label T,
\* then-body, Jump X, Label E, else-body (nothing when absent), Label X, with
\* E and X allocated in that order right after T and before the bodies; an If
\* lowered with fresh counters uses T = L1, E = L2, X = L3.
C2_IfOrder ==
    HasBundle =>
        /\ \A site \in Sites("IfStatement") : Code = IfExpected(site.n, site.g0)
        /\ g_ast_root.node = "IfStatement" =>
              \E k \in 1..Len(Code) :
                  /\ Code[k].tag = "Compare" /\ Code[k].jump = <<"L", "1">>
                  /\ Code[k + 1] = JumpCode(<<"L", "2">>)
                  /\ Code[k + 2] = LabelCode(<<"L", "1">>)
                  /\ \E m \in (k + 3)..Len(Code) :
                        /\ Code[m] = JumpCode(<<"L", "3">>)
                        /\ Code[m + 1] = LabelCode(<<"L", "2">>)
                  /\ Code[Len(Code)] = LabelCode(<<"L", "3">>)

\* a bundle for an if/else that follows another statement, both bodies
\* emitting instructions
C2_Witness ==
    /\ HasBundle
    /\ g_ast_root.node = "Statement"
    /\ g_ast_root.right.node = "IfStatement"
    /\ g_ast_root.right.else_body # Null
    /\ g_ast_root.right.if_body.node = "WhileStatement"
    /\ g_ast_root.left # Null
    /\ Len(Code) > 16

\* the stream the lowering of the While node w from state g0 has to leave:
\* S, B, X numbered first, then Label S, the condition's operands, Compare ->
\* T (the fourth label), Jump X, Label T, body, Jump S, Label X
WhileExpected(w, g0) ==
    LET c == w.condition
        n == g0.lCounter
        c0 == [g0 EXCEPT !.lCounter = n + 3]
        l == exec_expr(c.left_expression, c0)
        r == exec_expr(c.right_expression, l.g)
        b0 == [r.g EXCEPT !.lCounter = n + 4]
        b1 == exec_statement(w.body, b0)
    IN Instrs(g0)
         \o <<LabelCode(LabelName(n))>>
         \o Emitted(r.g, c0)
         \o <<CompareCodeIR(l.ret, c.comparison.value, r.ret, LabelName(n + 3)),
              JumpCode(LabelName(n + 2)),
              LabelCode(LabelName(n + 3))>>
         \o Emitted(b1, b0)
         \o <<JumpCode(LabelName(n)), LabelCode(LabelName(n + 2))>>

C4_ScenarioC_AsClaimed ==
    (HasBundle /\ g_ast_root = ScenarioC) =>
        Code = <<LabelCode(<<"L", "1">>),
                 CompareCodeIR(<<"i">>, "<", <<"1", "0">>, <<"L", "3">>),
                 JumpCode(<<"L", "4">>),
                 LabelCode(<<"L", "3">>),
                 AssignmentCode(<<"T", "1">>, <<"i">>, "+", <<"1">>),
                 AssignmentCode(<<"i">>, <<"T", "1">>, "", <<>>),
                 JumpCode(<<"L", "1">>),
                 LabelCode(<<"L", "4">>)>>

\* C4 (amended): Scenario C lowers to Label L1; Compare i < 10 goto L4;
\* Jump L3; Label L4; T1 = i + 1; i = T1; Jump L1; Label L3 -- the Compare
\* targets L4, the false-branch Jump and the final Label are L3, and L2 is
\* allocated but never emitted.
C4_ScenarioC ==
    (HasBundle /\ g_ast_root = ScenarioC) =>
        /\ Code = <<LabelCode(<<"L", "1">>),
                    CompareCodeIR(<<"i">>, "<", <<"1", "0">>, <<"L", "4">>),
                    JumpCode(<<"L", "3">>),
                    LabelCode(<<"L", "4">>),
                    AssignmentCode(<<"T", "1">>, <<"i">>, "+", <<"1">>),
                    AssignmentCode(<<"i">>, <<"T", "1">>, "", <<>>),
                    JumpCode(<<"L", "1">>),
                    LabelCode(<<"L", "3">>)>>
        /\ irgen.lCounter = 5

C4_Witness == HasBundle /\ g_ast_root = ScenarioC /\ Len(Code) = 8

\* the names of irgen.issued that start with letter, in the order issued
RECURSIVE IssuedOf(_, _)
IssuedOf(letter, log) ==
    IF log = <<>> THEN <<>>
    ELSE IF Head(log)[1] = letter
         THEN <<Head(log)>> \o IssuedOf(letter, Tail(log))
         ELSE IssuedOf(letter, Tail(log))

\* the k-th name of a kind is the letter followed by k, and the counter
\* stands one past the number of names issued
CounterDiscipline(letter, counter) ==
    LET names == IssuedOf(letter, irgen.issued)
    IN /\ \A k \in 1..Len(names) : names[k] = <<letter>> \o to_string(k)
       /\ counter = Len(names) + 1

\* C5: within one generator run the temporary, label and string-symbol
\* counters start at 1 and grow by one per allocation, and nextTemp,
\* nextLabel, nextStringSym never return the same name twice.
C5_FreshNames ==
    irgen # NoObject =>
        /\ \A a, b \in 1..Len(irgen.issued) :
              a # b => irgen.issued[a] # irgen.issued[b]
        /\ CounterDiscipline("T", irgen.tCounter)
        /\ CounterDiscipline("L", irgen.lCounter)
        /\ CounterDiscipline("S", irgen.sCounter)

\* a run that lowered the subtree i + 1 twice (it is both children of one
\* BinOp) and a string literal
C5_Witness ==
    /\ irgen # NoObject
    /\ g_ast_root.node = "Assignment"
    /\ g_ast_root.expression \in NestedExprs
    /\ g_ast_root.expression.left.node = "BinOpNode"
    /\ g_ast_root.expression.left.left = IPlusOne
    /\ g_ast_root.expression.left.right = IPlusOne
    /\ irgen.tCounter = 5
    /\ irgen.sCounter = 2

\* the operand strings of an instruction; the right field of a copy
\* Assignment (op empty) is not an operand
Sources_(ins) ==
    CASE ins.tag = "Assignment" ->
             {ins.left} \cup (IF ins.op # "" THEN {ins.right} ELSE {})
      [] ins.tag = "Compare" -> {ins.left, ins.right}
      [] ins.tag = "Print" -> {ins.value}
      [] OTHER -> {}

Operands(ins) ==
    Sources_(ins) \cup (IF ins.tag = "Assignment" THEN {ins.var} ELSE {})

AllOperands(code) == UNION {Operands(code[k]) : k \in 1..Len(code)}

AllSources(code) == UNION {Sources_(code[k]) : k \in 1..Len(code)}

\* C6: after lowering any AST, every operand of the form T<n> in the stream
\* is a key of the identifier table and the final bundle maps it to "int".
C6_TempsAreInt ==
    HasBundle =>
        \A o \in AllOperands(Code) :
            HasForm("T", o) =>
                o \in DOMAIN gen.identifiers /\ gen.identifiers[o] = "int"

\* C7: after lowering any AST, every operand of the form S<n> in the stream
\* (Assignment left, Print value, Compare operand) is a key of the constant
\* table, mapped to the literal text it was allocated for.
C7_StringSymsAreConstants ==
    HasBundle =>
        \A o \in AllSources(Code) :
            HasForm("S", o) =>
                o \in DOMAIN gen.constants /\ gen.constants[o] \in StrLits

\* C8: for every AST the generator accepts, every operand in the stream is
\* an integer literal matching -?[0-9]+ or a key of the identifier table or
\* of the constant table of the same bundle.
C8_OperandsRegistered ==
    HasBundle =>
        \A o \in AllOperands(Code) :
            \/ IsIntLiteral(o)
            \/ o \in DOMAIN gen.identifiers
            \/ o \in DOMAIN gen.constants

\* the instructions whose operands take part in integer arithmetic
Arithmetic(code) ==
    {k \in 1..Len(code) :
        \/ code[k].tag = "Compare"
        \/ code[k].tag = "Assignment" /\ code[k].op # ""}

IssuedSet(letter) ==
    LET names == IssuedOf(letter, irgen.issued)
    IN {names[k] : k \in 1..Len(names)}

\* an integer literal, a temporary of this run, or an identifier the bundle
\* records as "int"
IntTyped(o) ==
    \/ IsIntLiteral(o)
    \/ o \in IssuedSet("T")
    \/ o \in DOMAIN gen.identifiers /\ gen.identifiers[o] = "int"

\* C9 as claimed: every operand of a Compare and of an Assignment with a
\* non-empty op is integer-typed -- never a string-constant symbol and never
\* a variable recorded as "string".
C9_IntOperands_AsClaimed ==
    HasBundle =>
        \A k \in Arithmetic(Code) :
            \A o \in {Code[k].left, Code[k].right} :
                /\ IntTyped(o)
                /\ o \notin DOMAIN gen.constants

RECURSIVE OperandExprs(_)
\* the nodes of the tree n that are a child of a BinOp or of a Condition
OperandExprs(n) ==
    CASE n.node = "BinOpNode" ->
             {n.left, n.right} \cup OperandExprs(n.left) \cup OperandExprs(n.right)
      [] n.node = "Condition" ->
             {n.left_expression, n.right_expression}
                 \cup OperandExprs(n.left_expression)
                 \cup OperandExprs(n.right_expression)
      [] n.node = "Statement" -> OperandExprs(n.left) \cup OperandExprs(n.right)
      [] n.node = "IfStatement" ->
             OperandExprs(n.if_condition) \cup OperandExprs(n.if_body)
                 \cup OperandExprs(n.else_body)
      [] n.node = "WhileStatement" ->
             OperandExprs(n.condition) \cup OperandExprs(n.body)
      [] n.node = "PrintStatement" -> OperandExprs(n.intExpr)
      [] n.node = "Assignment" -> OperandExprs(n.expression)
      [] n.node = "Declaration" -> OperandExprs(n.init_expr)
      [] OTHER -> {}

\* an operand expression that denotes an integer: a BinOp, a Number with
\* integer literal text, or an Identifier the bundle records as "int"
IntExpr(e) ==
    \/ e.node = "BinOpNode"
    \/ e.node = "NumberNode" /\ IsIntLiteral(e.tok.value)
    \/ /\ e.node = "IdentifierNode"
       /\ e.tok.value \in DOMAIN gen.identifiers
       /\ gen.identifiers[e.tok.value] = "int"

\* C9 (amended): the generator checks no types; when every child of a BinOp
\* or Condition in the AST is a BinOp, a Number, or an Identifier that the
\* bundle records as "int", every operand of a Compare and of an Assignment
\* with a non-empty op is an integer literal, a temporary of the run, or an
\* identifier recorded as "int".
C9_IntOperands ==
    (HasBundle /\ \A e \in OperandExprs(g_ast_root) : IntExpr(e)) =>
        \A k \in Arithmetic(Code) :
            \A o \in {Code[k].left, Code[k].right} : IntTyped(o)

\* a bundle for "int i;" followed by an if/else around a while, whose
\* conditions and arithmetic read i
C9_Witness ==
    /\ HasBundle
    /\ \A e \in OperandExprs(g_ast_root) : IntExpr(e)
    /\ g_ast_root.node = "Statement"
    /\ g_ast_root.right.node = "IfStatement"
    /\ \E k \in Arithmetic(Code) : Code[k].tag = "Compare" /\ Code[k].left = <<"i">>
    /\ \E k \in Arithmetic(Code) :
          Code[k].tag = "Assignment" /\ Code[k].left = <<"i">>
    /\ \E k \in Arithmetic(Code) : Code[k].left \in IssuedSet("T")
    /\ gen.identifiers[<<"i">>] = "int"

IsBadDecl(n) ==
    n.node = "Declaration" /\ n.init_expr # Null /\ Len(n.identifiers) # 1

RECURSIVE HasBadDecl(_)
\* the lowering of the tree n reaches such a Declaration
HasBadDecl(n) ==
    CASE n.node = "Declaration" -> IsBadDecl(n)
      [] n.node = "Statement" -> HasBadDecl(n.left) \/ HasBadDecl(n.right)
      [] n.node = "IfStatement" -> HasBadDecl(n.if_body) \/ HasBadDecl(n.else_body)
      [] n.node = "WhileStatement" -> HasBadDecl(n.body)
      [] OTHER -> FALSE

\* the places near the root where such a Declaration is the first one
\* reached, each with the generator state its lowering starts from
BadDeclSites ==
    LET r == g_ast_root
    IN IF IsBadDecl(r) THEN {[n |-> r, g0 |-> Fresh]}
       ELSE IF r.node # "Statement" THEN {}
       ELSE IF IsBadDecl(r.left) THEN {[n |-> r.left, g0 |-> Fresh]}
       ELSE IF HasBadDecl(r.left) THEN {}
       ELSE IF IsBadDecl(r.right)
            THEN {[n |-> r.right, g0 |-> exec_statement(r.left, Fresh)]}
       ELSE IF r.right.node = "Statement" /\ IsBadDecl(r.right.left)
            THEN {[n |-> r.right.left, g0 |-> exec_statement(r.left, Fresh)]}
       ELSE {}

\* the assembly text writeAsm produces for a recorded bundle
AsmOf(h) ==
    writeAsm(CodeGenerator([k \in 1..Len(h.code) |-> k], h.identifiers,
                           h.constants, <<>>), h.code).out

\* the content of the target file after the compilations recorded so far
LastWritten == IF history = <<>> THEN NoFile ELSE AsmOf(history[Len(history)])

\* C11: lowering a Declaration that has an initializer and a number of
\* identifiers other than one fails with "Init only allowed for single
\* variable declaration": the generator stops with the identifiers of the
\* declaration registered and no instruction emitted for it, no bundle is
\* obtained, writeAsm is not reached and the target file stays as the last
\* successful compilation left it.
C11_InitErrorAborts ==
    irgen # NoObject =>
        /\ (irgen.thrown = InitError) <=> HasBadDecl(g_ast_root)
        /\ irgen.thrown \in {NoError, InitError}
        /\ irgen.thrown = InitError =>
              /\ pc \in {"catch", "wait"}
              /\ gen = NoObject
              /\ codegen = NoObject
              /\ file = LastWritten
              /\ \A site \in BadDeclSites :
                    /\ Instrs(irgen) = Instrs(site.g0)
                    /\ irgen.identifiers =
                          DeclareAll(site.n, 1, site.g0.identifiers)
                    /\ irgen.constants = site.g0.constants
                    /\ irgen.tCounter = site.g0.tCounter
                    /\ irgen.sCounter = site.g0.sCounter

\* the second compilation fails on "int i, T1 = i + 1;" after it has lowered
\* an assignment, and the file of the first compilation is still there
C11_Witness ==
    /\ pc = "wait"
    /\ irgen # NoObject
    /\ irgen.thrown = InitError
    /\ g_ast_root = LateInit
    /\ BadDeclSites # {}
    /\ Len(irgen.arr) = 2
    /\ file # NoFile
    /\ runs = 2

RECURSIVE Last(_, _)
\* the statement of the tree n that is lowered last, with the generator
\* state its lowering starts from when that of n starts from g0
Last(n, g0) ==
    IF n.node # "Statement" THEN [n |-> n, g0 |-> g0]
    ELSE IF n.right = Null THEN Last(n.left, g0)
    ELSE Last(n.right, exec_statement(n.left, g0))

LastSite == Last(g_ast_root, Fresh)

\* the copy Assignments of a stream
Copies(code) ==
    {k \in 1..Len(code) : code[k].tag = "Assignment" /\ code[k].op = ""}

\* the names of a token list
Names(toks) == {toks[k].value : k \in 1..Len(toks)}

\* C12: lowering Decl(type, ids, init) first records identifiers[id] = type
\* for every id of ids.  Without an initializer it emits nothing and changes
\* nothing else.  With an initializer and one identifier it lowers the
\* initializer from there (the tables end as the initializer's lowering
\* leaves them) and then emits exactly one copy Assignment{var = ids[0],
\* left = the initializer's symbol, op and right empty}.  "int x = 2 + 3;" gives T1 = 2 + 3; x = T1 with
\* identifiers {T1: int, x: int} and no constants.
C12_Declaration ==
    (HasBundle /\ LastSite.n.node = "Declaration") =>
        LET d == LastSite.n
            g0 == LastSite.g0
            type == d.declaration_type.value
            reg == [g0 EXCEPT !.identifiers = DeclareAll(d, 1, @)]
        IN /\ DOMAIN reg.identifiers =
                 DOMAIN g0.identifiers \cup Names(d.identifiers)
           /\ \A id \in Names(d.identifiers) : reg.identifiers[id] = type
           /\ d.init_expr = Null =>
                 /\ Code = Instrs(g0)
                 /\ gen.identifiers = reg.identifiers
                 /\ gen.constants = g0.constants
                 /\ irgen.tCounter = g0.tCounter
           /\ d.init_expr # Null =>
                 LET r == exec_expr(d.init_expr, reg)
                     new == Emitted(irgen, g0)
                 IN /\ Len(d.identifiers) = 1
                    /\ new = Emitted(r.g, g0)
                               \o <<AssignmentCode(d.identifiers[1].value,
                                                   r.ret, "", <<>>)>>
                    /\ Copies(new) = {Len(new)}
                    /\ gen.identifiers = r.g.identifiers
                    /\ gen.constants = r.g.constants
           /\ g_ast_root = DeclExample =>
                 /\ Code = <<AssignmentCode(<<"T", "1">>, <<"2">>, "+", <<"3">>),
                             AssignmentCode(<<"x">>, <<"T", "1">>, "", <<>>)>>
                 /\ gen.identifiers = (<<"T", "1">> :> "int") @@ (<<"x">> :> "int")
                 /\ gen.constants = <<>>

\* "string T1 = i + 1;" lowered after another statement that emitted code
C12_Witness ==
    /\ HasBundle
    /\ g_ast_root.node = "Statement"
    /\ LastSite.n = Declaration("string", <<<<"T", "1">>>>, IPlusOne)
    /\ Len(LastSite.g0.arr) >= 1
    /\ Len(Code) = Len(LastSite.g0.arr) + 2
    /\ gen.identifiers[<<"T", "1">>] = "int"

C14_Print ==
    HasBundle =>
        /\ \A k \in 1..Len(Code) :
              Code[k].tag = "Print" => Code[k].type \in {"int", "string"}
        /\ LastSite.n.node = "PrintStatement" =>
              LET p == LastSite.n
                  g0 == LastSite.g0
                  new == Emitted(irgen, g0)
                  sym == <<"S">> \o to_string(g0.sCounter)
                  r == exec_expr(p.intExpr, g0)
                  kind == IF p.type = "string" THEN "string" ELSE "int"
              IN IF p.type = "string" /\ p.strValue # <<>>
                 THEN /\ new = <<PrintCodeIR("string", sym)>>
                      /\ sym \notin DOMAIN g0.constants
                      /\ gen.constants = (sym :> p.strValue) @@ g0.constants
                      /\ gen.identifiers = g0.identifiers
                      /\ irgen.sCounter = g0.sCounter + 1
                      /\ irgen.tCounter = g0.tCounter
                 ELSE /\ new = Emitted(r.g, g0) \o <<PrintCodeIR(kind, r.ret)>>
                      /\ gen.constants = r.g.constants
                      /\ gen.identifiers = r.g.identifiers
                      /\ irgen.sCounter = r.g.sCounter
                      /\ irgen.tCounter = r.g.tCounter
        /\ g_ast_root = PrintExample =>
              /\ Code = <<PrintCodeIR("string", <<"S", "1">>)>>
              /\ gen.constants = (<<"S", "1">> :> <<"h", "e", "l", "l", "o">>)

\* a print of kind "float" lowered after a statement that emitted code
C14_Witness ==
    /\ HasBundle
    /\ LastSite.n = PrintStatement("float", IPlusOne, <<>>)
    /\ Len(LastSite.g0.arr) >= 1
    /\ Code[Len(Code)].tag = "Print"
    /\ Code[Len(Code)].type = "int"
    /\ Code[Len(Code) - 1].tag = "Assignment"
    /\ Code[Len(Code)].value = Code[Len(Code) - 1].var

\* the expression the last statement lowers, with the generator state its
\* lowering starts from; no element when that statement lowers none
LastExpr ==
    LET n == LastSite.n
        g0 == LastSite.g0
    IN CASE n.node = "Assignment" ->
                {[e |-> n.expression,
                  s |-> IF n.identifier.value \in DOMAIN g0.identifiers THEN g0
                        ELSE set_identifier(g0, n.identifier.value, "string"),
                  g0 |-> g0]}
         [] n.node = "PrintStatement" /\ ~(n.type = "string" /\ n.strValue # <<>>) ->
                {[e |-> n.intExpr, s |-> g0, g0 |-> g0]}
         [] n.node = "Declaration" /\ n.init_expr # Null ->
                {[e |-> n.init_expr,
                  s |-> [g0 EXCEPT !.identifiers = DeclareAll(n, 1, @)],
                  g0 |-> g0]}
         [] OTHER -> {}

\* the binary Assignments s1 has emitted beyond s0 define the temporaries
\* numbered from s0.tCounter on, one after the other
PostOrder(s0, s1) ==
    LET new == Emitted(s1, s0)
    IN /\ Len(new) = s1.tCounter - s0.tCounter
       /\ \A k \in 1..Len(new) :
             /\ new[k].tag = "Assignment" /\ new[k].op # ""
             /\ new[k].var = <<"T">> \o to_string(s0.tCounter + k - 1)

RECURSIVE ExprOK(_, _)
\* what exec_expr has to do on the expression e from the generator state s0,
\* for e and for every expression below it
ExprOK(e, s0) ==
    LET r == exec_expr(e, s0)
    IN CASE e.node \in {"IdentifierNode", "NumberNode"} ->
                r.ret = e.tok.value /\ r.g = s0
         [] e.node = "StringLiteralNode" ->
                LET sym == <<"S">> \o to_string(s0.sCounter)
                IN /\ r.ret = sym
                   /\ r.g = [s0 EXCEPT !.sCounter = @ + 1,
                                       !.constants = (sym :> e.tok.value) @@ @,
                                       !.issued = Append(@, sym)]
         [] e.node = "BinOpNode" ->
                LET l == exec_expr(e.left, s0)
                    rr == exec_expr(e.right, l.g)
                    t == <<"T">> \o to_string(rr.g.tCounter)
                IN /\ ExprOK(e.left, s0)
                   /\ ExprOK(e.right, l.g)
                   /\ r.ret = t
                   /\ Instrs(r.g) =
                         Append(Instrs(rr.g),
                                AssignmentCode(t, l.ret, e.op_tok.value, rr.ret))
                   /\ r.g.identifiers = (t :> "int") @@ rr.g.identifiers
                   /\ r.g.tCounter = rr.g.tCounter + 1
                   /\ r.g.sCounter = rr.g.sCounter
                   /\ r.g.lCounter = s0.lCounter
                   /\ r.g.constants = rr.g.constants
                   /\ PostOrder(s0, l.g) /\ PostOrder(l.g, rr.g) /\ PostOrder(s0, r.g)
         [] OTHER -> TRUE

\* i = (i + 1) * (i + 1) - "hi";
PostOrderExample == Assignment(<<"i">>, BinOpNode(BinOpNode(IPlusOne, "*", IPlusOne), "-",
                                                   StringLiteralNode(<<"h", "i">>)))

\* C15: exec_expr on an Identifier or a Number returns the token text, emits
\* nothing and advances no counter; on a StringLiteral it advances only the
\* string counter and records the constant, emitting nothing; on a BinOp it
\* lowers the left child completely, then the right child completely, then
\* allocates one temporary (the temporaries of a nested expression are
\* numbered in post-order), records it as "int", emits one Assignment{T<n>,
\* l, op, r} and returns T<n>.
C15_ExprLowering ==
    HasBundle =>
        /\ \A x \in LastExpr :
              LET r == exec_expr(x.e, x.s)
              IN /\ ExprOK(x.e, x.s)
                 /\ SubSeq(Code, Len(x.g0.arr) + 1, Len(r.g.arr)) = Emitted(r.g, x.g0)
        /\ g_ast_root = PostOrderExample =>
              /\ Code = <<AssignmentCode(<<"T", "1">>, <<"i">>, "+", <<"1">>),
                          AssignmentCode(<<"T", "2">>, <<"i">>, "+", <<"1">>),
                          AssignmentCode(<<"T", "3">>, <<"T", "1">>, "*", <<"T", "2">>),
                          AssignmentCode(<<"T", "4">>, <<"T", "3">>, "-", <<"S", "1">>),
                          AssignmentCode(<<"i">>, <<"T", "4">>, "", <<>>)>>
              /\ gen.constants = (<<"S", "1">> :> <<"h", "i">>)
              /\ \A n \in 1..4 : gen.identifiers[<<"T">> \o to_string(n)] = "int"

\* the bundle of i = (i + 1) * (i + 1) - "hi";
C15_Witness ==
    /\ HasBundle
    /\ g_ast_root = PostOrderExample
    /\ LastExpr # {}
    /\ Len(Code) = 5
    /\ irgen.tCounter = 5
    /\ irgen.sCounter = 2

\* writeAsm has run on the bundle and both objects are still alive
HasAsm == codegen # NoObject /\ gen # NoObject

\* the buffer writeAsm filled
Out == codegen.out

\* the lines gen_code adds for one instruction
InstrText(ins) ==
    gen_instr(CodeGenerator(<<>>, gen.identifiers, gen.constants, <<>>), ins).out

RECURSIVE CodeText(_)
\* the lines of the instructions of code, in stream order
CodeText(code) ==
    IF code = <<>> THEN <<>> ELSE InstrText(Head(code)) \o CodeText(Tail(code))

BssHeader == Line(<<"section .bss", "\n">>)

DigitSpace == Line(gen_variables_S \o <<"\n">>)

DataHeader == Line(<<"section .data", "\n">>)

TextHeader == Line(gen_start_S \o <<"\n">>)

ExitSequence == Line(gen_end_S \o <<"\n">>)

PrintNumRoutine == Line(gen_print_num_function_S \o <<"\n">>)

PrintStringRoutine == Line(gen_print_string_function_S \o <<"\n">>)

\* the positions of out that hold the chunk c
Positions(out, c) == {k \in 1..Len(out) : out[k] = c}

\* the chunks of out that precede the slots of the identifiers
Reservations(out) == SubSeq(out, 1, IF out[2] = DigitSpace THEN 2 ELSE 1)

\* C16: the text writeAsm produces is, in this order: "section .bss" with
\* its reservations; "section .data" with one line per constant; "section
\* .text", "global _start", "_start:"; the code of each IR instruction in
\* stream order; the exit sequence (mov rax, 60 / mov rdi, 0 / syscall)
\* exactly once; the print_num routine if needed; the print_string routine if
\* needed.  No helper routine text comes before the exit sequence.
C16_OutputOrder ==
    HasAsm =>
        LET res == Reservations(Out)
            n == Len(res)
            code == CodeText(Code)
            m == n + 4 + Len(code)
        IN /\ res \in {<<BssHeader>>, <<BssHeader, DigitSpace>>}
           /\ DOMAIN Out[n + 1] = {"group"}
           /\ Cardinality(Out[n + 1].group) = Cardinality(DOMAIN gen.identifiers)
           /\ Out[n + 2] = DataHeader
           /\ DOMAIN Out[n + 3] = {"group"}
           /\ Cardinality(Out[n + 3].group) = Cardinality(DOMAIN gen.constants)
           /\ Out[n + 4] = TextHeader
           /\ SubSeq(Out, n + 5, m) = code
           /\ Out[m + 1] = ExitSequence
           /\ Positions(Out, ExitSequence) = {m + 1}
           /\ SubSeq(Out, m + 2, Len(Out)) \in
                 {<<>>, <<PrintNumRoutine>>, <<PrintStringRoutine>>,
                  <<PrintNumRoutine, PrintStringRoutine>>}
           /\ \A k \in Positions(Out, PrintNumRoutine)
                         \cup Positions(Out, PrintStringRoutine) : k > m + 1
           /\ file = Out

\* the text for i = "hi"; print(i); print((i + 1) / 10); -- both routines,
\* a constant, three slots
C16_Witness ==
    /\ HasAsm
    /\ g_ast_root = StringVarExample
    /\ Len(Code) = 5
    /\ Out[2] = DigitSpace
    /\ Cardinality(Out[3].group) = 3
    /\ Cardinality(Out[5].group) = 1
    /\ Out[Len(Out) - 2] = ExitSequence
    /\ Out[Len(Out) - 1] = PrintNumRoutine
    /\ Out[Len(Out)] = PrintStringRoutine
    /\ Len(Out) = 6 + 15 + 3

\* the Print instructions of code with the given kind
PrintsOf(code, kind) ==
    {k \in 1..Len(code) : code[k].tag = "Print" /\ code[k].type = kind}

\* C17: writeAsm emits the print_num routine and reserves digitSpace and
\* digitSpacePos if and only if the stream holds at least one integer Print,
\* and emits the print_string routine if and only if the stream holds at
\* least one string Print; a stream with string prints only reserves no
\* digitSpace, and a stream without a Print gets neither routine.
C17_HelpersOnDemand ==
    HasAsm =>
        LET ints == PrintsOf(Code, "int")
            strs == PrintsOf(Code, "string")
        IN /\ Cardinality(Positions(Out, PrintNumRoutine)) =
                 (IF ints # {} THEN 1 ELSE 0)
           /\ Cardinality(Positions(Out, DigitSpace)) =
                 (IF ints # {} THEN 1 ELSE 0)
           /\ Cardinality(Positions(Out, PrintStringRoutine)) =
                 (IF strs # {} THEN 1 ELSE 0)
           /\ codegen.need_print_num <=> ints # {}
           /\ codegen.need_print_string <=> strs # {}
           /\ (ints = {} /\ strs # {}) =>
                 DigitSpace \notin {Out[k] : k \in 1..Len(Out)}
           /\ CountTag(Code, "Print") = 0 =>
                 Out[Len(Out)] = ExitSequence

\* the text for a loop that prints a string literal: string prints only
C17_Witness ==
    /\ HasAsm
    /\ g_ast_root.node = "WhileStatement"
    /\ PrintsOf(Code, "string") # {}
    /\ PrintsOf(Code, "int") = {}
    /\ Out[Len(Out)] = PrintStringRoutine
    /\ Out[Len(Out) - 1] = ExitSequence
    /\ DOMAIN Out[2] = {"group"}

\* the position of out just before the lines of the k-th instruction
Offset(k) == Len(Reservations(Out)) + 4 + Len(CodeText(SubSeq(Code, 1, k - 1)))

\* the lines of out that the k-th instruction of the stream produced
LinesOf(k) == SubSeq(Out, Offset(k) + 1, Offset(k) + Len(InstrText(Code[k])))

\* <operand(a)>: an immediate as it is, anything else in brackets
Operand(a) ==
    IF \/ Len(a) >= 1 /\ a[1] \in DigitChars
       \/ Len(a) >= 2 /\ a[1] = "-" /\ a[2] \in DigitChars
    THEN a
    ELSE <<"[">> \o a \o <<"]">>

Mnemonic(op) == CASE op = "+" -> "add" [] op = "-" -> "sub" [] op = "*" -> "imul"

\* the binary Assignments of the stream
Binaries(code) ==
    {k \in 1..Len(code) : code[k].tag = "Assignment" /\ code[k].op # ""}

\* C18: for a binary Assignment{var, left, op, right} gen_assignment emits,
\* when op is "/", exactly mov rax, <operand(left)>; cqo; mov rbx,
\* <operand(right)>; idiv rbx; mov <operand(var)>, rax, and when op is "+",
\* "-" or "*" exactly mov rax, <operand(left)>; mov rbx, <operand(right)>;
\* add|sub|imul rax, rbx; mov <operand(var)>, rax.
C18_BinaryAssignment ==
    HasAsm =>
        \A k \in Binaries(Code) :
            LET a == Code[k]
                load == Line(<<"\tmov rax, ">> \o Operand(a.left) \o <<"\n">>)
                loadr == Line(<<"\tmov rbx, ">> \o Operand(a.right) \o <<"\n">>)
                store == Line(<<"\tmov ">> \o Operand(a.var) \o <<", rax", "\n">>)
            IN /\ a.op \in {"+", "-", "*", "/"}
               /\ a.op = "/" =>
                     LinesOf(k) = <<load, Line(<<"\tcqo", "\n">>), loadr,
                                    Line(<<"\tidiv rbx", "\n">>), store>>
               /\ a.op # "/" =>
                     LinesOf(k) = <<load, loadr,
                                    Line(<<"\t", Mnemonic(a.op), " rax, rbx", "\n">>),
                                    store>>

\* the text for i = "hi"; print(i); print((i + 1) / 10); -- T1 = i + 1 and
\* T2 = T1 / 10
C18_Witness ==
    /\ HasAsm
    /\ g_ast_root = StringVarExample
    /\ Binaries(Code) = {3, 4}
    /\ Code[3].op = "+"
    /\ Code[4].op = "/"
    /\ Len(LinesOf(3)) = 4
    /\ Len(LinesOf(4)) = 5
    /\ LinesOf(4)[3] = Line(<<"\tmov rbx, ", "1", "0", "\n">>)

\* C19: for a copy Assignment (op empty) gen_assignment emits lea rax, [rel
\* <left>] exactly when left is a key of the constant table and mov rax,
\* <operand(left)> otherwise, followed in both cases by mov <operand(var)>,
\* rax; a string variable assigned from a literal gets the literal's address,
\* and a later string Print of that variable loads it into rdi for
\* print_string.
C19_CopyAssignment ==
    HasAsm =>
        /\ \A k \in Copies(Code) :
              LET a == Code[k]
                  store == Line(<<"\tmov ">> \o Operand(a.var) \o <<", rax", "\n">>)
              IN IF a.left \in DOMAIN gen.constants
                 THEN LinesOf(k) =
                         <<Line(<<"\tlea rax, [rel ">> \o a.left \o <<"]", "\n">>),
                           store>>
                 ELSE LinesOf(k) =
                         <<Line(<<"\tmov rax, ">> \o Operand(a.left) \o <<"\n">>),
                           store>>
        /\ g_ast_root = StringVarExample =>
              LinesOf(1) \o LinesOf(2) =
                  <<Line(<<"\tlea rax, [rel ", "S", "1", "]", "\n">>),
                    Line(<<"\tmov ", "[", "i", "]", ", rax", "\n">>),
                    Line(<<"\tmov rdi, [", "i", "]", "\n">>),
                    Line(<<"\tcall print_string", "\n">>)>>

\* the text for "int i = 1;" followed by i = "hi"; -- a copy of an
\* immediate and a copy of a constant's address
C19_Witness ==
    /\ HasAsm
    /\ Len(Code) = 2
    /\ Copies(Code) = {1, 2}
    /\ Code[1].left = <<"1">>
    /\ Code[2].left \in DOMAIN gen.constants
    /\ LinesOf(1)[1] = Line(<<"\tmov rax, ", "1", "\n">>)
    /\ LinesOf(2)[1] = Line(<<"\tlea rax, [rel ", "S", "1", "]", "\n">>)

(***************************************************************************)
(* The CodeGenerator on its own: a bundle holding one instruction whose    *)
(* operands are arbitrary strings, handed to the constructor and writeAsm  *)
(* as main does.  The generator never produces most of these operands; the *)
(* backend accepts them all.                                               *)
(***************************************************************************)
MaxOperandLen == 3

\* the characters of an operand: the sign, both ends of the digits, the
\* character before '0' and a letter
OperandChars == {"-", "/", "0", "9", "a"}

OperandStrings == UNION {[1..n -> OperandChars] : n \in 0..MaxOperandLen}

\* the instructions whose operands handleVar resolves
OperandInstrs ==
    {PrintCodeIR("int", a) : a \in OperandStrings}
        \cup {AssignmentCode(a, a, "", <<>>) : a \in OperandStrings}
        \cup {CompareCodeIR(a, "==", a, <<"L", "1">>) : a \in OperandStrings}

OperandInit ==
    /\ pc = "codegen"
    /\ g_ast_root = Null
    /\ irgen = NoObject
    /\ \E ins \in OperandInstrs :
          /\ pool = <<ins>>
          /\ gen = [code |-> <<1>>, identifiers |-> <<>>, constants |-> <<>>]
    /\ codegen = NoObject
    /\ file = NoFile
    /\ runs = 0
    /\ history = <<>>
    /\ cpu = NoObject

OperandSpec == OperandInit /\ [][Codegen]_vars

\* C20: handleVar emits an operand string whose first character is an ASCII
\* digit, or whose first character is '-' and whose second is an ASCII
\* digit, verbatim as an immediate; every other operand string, "-" alone, a
\* '-' followed by a non-digit and the empty string included, is emitted as
\* the memory operand [<operand>].
C20_OperandResolution ==
    HasAsm =>
        \A k \in 1..Len(Code) :
            LET ins == Code[k]
                Immediate(a) ==
                    \/ a # <<>> /\ a[1] \in {"0", "1", "2", "3", "4", "5", "6", "7", "8", "9"}
                    \/ /\ Len(a) >= 2
                       /\ a[1] = "-"
                       /\ a[2] \in {"0", "1", "2", "3", "4", "5", "6", "7", "8", "9"}
                Resolved(a) == IF Immediate(a) THEN a ELSE <<"[">> \o a \o <<"]">>
            IN /\ ins.tag = "Print" =>
                     LinesOf(k)[1] =
                         Line(<<"\tmov rdi, ">> \o Resolved(ins.value) \o <<"\n">>)
               /\ ins.tag = "Assignment" =>
                     LinesOf(k) =
                         <<Line(<<"\tmov rax, ">> \o Resolved(ins.left) \o <<"\n">>),
                           Line(<<"\tmov ">> \o Resolved(ins.var) \o <<", rax", "\n">>)>>
               /\ ins.tag = "Compare" =>
                     SubSeq(LinesOf(k), 1, 2) =
                         <<Line(<<"\tmov rax, ">> \o Resolved(ins.left) \o <<"\n">>),
                           Line(<<"\tcmp rax, ">> \o Resolved(ins.right) \o <<"\n">>)>>

\* a lone "-" printed as an integer is read from memory
C20_Witness ==
    /\ HasAsm
    /\ Code = <<PrintCodeIR("int", <<"-">>)>>
    /\ LinesOf(1) = <<Line(<<"\tmov rdi, ", "[", "-", "]", "\n">>),
                      Line(<<"\tcall print_num", "\n">>)>>

\* <jcc>: the jump of a comparison operator
Jcc(cmp) ==
    CASE cmp = "==" -> "je" [] cmp = "!=" -> "jne" [] cmp = "<" -> "jl"
      [] cmp = "<=" -> "jle" [] cmp = ">" -> "jg" [] cmp = ">=" -> "jge"

\* the comparison operators of the Compares of a stream
ComparesOf(code) ==
    {code[k].operation : k \in {j \in 1..Len(code) : code[j].tag = "Compare"}}

\* C21: Jump{t} is emitted as jmp t, Label{n} as n: on a line of its own,
\* and Compare{l, cmp, r, t} as mov rax, <operand(l)>; cmp rax,
\* <operand(r)>; <jcc> t, where cmp_to_jmp finds each of the six operators
\* and returns je, jne, jl, jle, jg, jge for ==, !=, <, <=, >, >=.
C21_JumpLabelCompare ==
    HasAsm =>
        \A k \in 1..Len(Code) :
            LET ins == Code[k]
            IN /\ ins.tag = "Jump" =>
                     LinesOf(k) = <<Line(<<"\tjmp ">> \o ins.dist \o <<"\n">>)>>
               /\ ins.tag = "Label" =>
                     LinesOf(k) = <<Line(ins.label \o <<":", "\n">>)>>
               /\ ins.tag = "Compare" =>
                     /\ ins.operation \in CmpOps
                     /\ LinesOf(k) =
                           <<Line(<<"\tmov rax, ">> \o Operand(ins.left) \o <<"\n">>),
                             Line(<<"\tcmp rax, ">> \o Operand(ins.right) \o <<"\n">>),
                             Line(<<"\t", Jcc(ins.operation), " ">> \o ins.jump
                                      \o <<"\n">>)>>

\* the text of if (i <= 1) i = i + 1;
C21_Witness ==
    /\ HasAsm
    /\ ComparesOf(Code) = {"<="}
    /\ Len(Code) = 8
    /\ Code[1].tag = "Compare"
    /\ Code[2].tag = "Jump"
    /\ Code[3].tag = "Label"
    /\ LinesOf(1) = <<Line(<<"\tmov rax, ", "[", "i", "]", "\n">>),
                      Line(<<"\tcmp rax, ", "1", "\n">>),
                      Line(<<"\t", "jle", " ", "L", "1", "\n">>)>>
    /\ LinesOf(2) = <<Line(<<"\tjmp ", "L", "2", "\n">>)>>
    /\ LinesOf(3) = <<Line(<<"L", "1", ":", "\n">>)>>

\* C22: gen_print emits mov rdi, <operand(value)> then call print_num for an
\* integer Print; for a string Print it emits mov rdi, <value>, the symbol
\* itself, when value is a key of the constant table and mov rdi, [<value>]
\* otherwise, then call print_string.
C22_Print ==
    HasAsm =>
        \A k \in 1..Len(Code) :
            LET ins == Code[k]
            IN ins.tag = "Print" =>
                  /\ ins.type = "int" =>
                        LinesOf(k) =
                            <<Line(<<"\tmov rdi, ">> \o Operand(ins.value) \o <<"\n">>),
                              Line(<<"\tcall print_num", "\n">>)>>
                  /\ ins.type = "string" /\ ins.value \in DOMAIN gen.constants =>
                        LinesOf(k) =
                            <<Line(<<"\tmov rdi, ">> \o ins.value \o <<"\n">>),
                              Line(<<"\tcall print_string", "\n">>)>>
                  /\ ins.type = "string" /\ ins.value \notin DOMAIN gen.constants =>
                        LinesOf(k) =
                            <<Line(<<"\tmov rdi, [">> \o ins.value \o <<"]", "\n">>),
                              Line(<<"\tcall print_string", "\n">>)>>

\* the text of print("hi"); print(i); -- a constant passed by name and a
\* variable passed by its contents
C22_Witness ==
    /\ HasAsm
    /\ Code = <<PrintCodeIR("string", <<"S", "1">>), PrintCodeIR("string", <<"i">>)>>
    /\ DOMAIN gen.constants = {<<"S", "1">>}
    /\ LinesOf(1) = <<Line(<<"\tmov rdi, ", "S", "1", "\n">>),
                      Line(<<"\tcall print_string", "\n">>)>>
    /\ LinesOf(2) = <<Line(<<"\tmov rdi, [", "i", "]", "\n">>),
                      Line(<<"\tcall print_string", "\n">>)>>

(***************************************************************************)
(* The CodeGenerator on a bundle without instructions whose constant table *)
(* holds literals of arbitrary bytes.                                      *)
(***************************************************************************)
MaxLiteralLen == 3

\* the bytes of a literal: 9, 10, 99, 100 and 255, at the ends of the three
\* ranges of append_u8
LiteralBytes == {"\t", "\n", "c", "d", "\\377"}

Literals == UNION {[1..n -> LiteralBytes] : n \in 0..MaxLiteralLen}

ConstantTables ==
    {[k \in {<<"S", "1">>} |-> s] : s \in Literals}
        \cup {[k \in {<<"S", "1">>, <<"S", "2">>} |->
                  IF k = <<"S", "1">> THEN s ELSE <<"h", "i">>] : s \in Literals}

ConstantInit ==
    /\ pc = "codegen"
    /\ g_ast_root = Null
    /\ irgen = NoObject
    /\ pool = EmptyPool
    /\ \E c \in ConstantTables :
          gen = [code |-> <<>>, identifiers |-> <<>>, constants |-> c]
    /\ codegen = NoObject
    /\ file = NoFile
    /\ runs = 0
    /\ history = <<>>
    /\ cpu = NoObject

ConstantSpec == ConstantInit /\ [][Codegen]_vars

RECURSIVE ByteList(_)
\* each byte of s as its decimal value followed by ", "
ByteList(s) ==
    IF s = <<>> THEN <<>>
    ELSE to_string(CharCode(Head(s))) \o <<",", " ">> \o ByteList(Tail(s))

\* the line of the data section for the constant name with bytes s
DataLine(name, s) ==
    <<"\t">> \o name \o <<" ", "d", "b", " ">> \o ByteList(s)
        \o <<"1", "0", ",", " ", "0", "\n">>

\* the chunk of out between "section .data" and "section .text"
DataSection == Out[Len(Reservations(Out)) + 3]

\* C23: for every entry S<n> -> b0..bk-1 of the constant table the data
\* section holds exactly one line: TAB, the name, " db ", each byte as its
\* unsigned decimal value 0..255 without leading zeros followed by ", ",
\* then "10, 0"; an empty literal gives <name> db 10, 0, so every stored
\* string ends with a newline byte and a NUL.
C23_DataLines ==
    HasAsm =>
        /\ Out[Len(Reservations(Out)) + 2] = DataHeader
        /\ Out[Len(Reservations(Out)) + 4] = TextHeader
        /\ DataSection =
              Group({DataLine(k, gen.constants[k]) : k \in DOMAIN gen.constants})
        /\ Cardinality(DataSection.group) = Cardinality(DOMAIN gen.constants)
        /\ \A k \in DOMAIN gen.constants :
              gen.constants[k] = <<>> =>
                  <<"\t">> \o k \o <<" ", "d", "b", " ", "1", "0", ",", " ", "0", "\n">>
                      \in DataSection.group

\* S1 holds the bytes 9, 99, 255 and S2 holds "hi"
C23_Witness ==
    /\ HasAsm
    /\ gen.constants[<<"S", "1">>] = <<"\t", "c", "\\377">>
    /\ DataSection =
          Group({<<"\t", "S", "1", " ", "d", "b", " ", "9", ",", " ", "9", "9",
                   ",", " ", "2", "5", "5", ",", " ", "1", "0", ",", " ", "0", "\n">>,
                 <<"\t", "S", "2", " ", "d", "b", " ", "1", "0", "4", ",", " ",
                   "1", "0", "5", ",", " ", "1", "0", ",", " ", "0", "\n">>})

\* the names one instruction makes the backend emit in brackets
Bracketed(ins) ==
    LET mem(S) == {o \in S : Operand(o) # o}
    IN CASE ins.tag = "Assignment" /\ ins.op = "" ->
                mem({ins.var}) \cup mem({ins.left} \ DOMAIN gen.constants)
         [] ins.tag = "Assignment" /\ ins.op # "" ->
                mem({ins.var, ins.left, ins.right})
         [] ins.tag = "Compare" -> mem({ins.left, ins.right})
         [] ins.tag = "Print" /\ ins.type = "int" -> mem({ins.value})
         [] ins.tag = "Print" /\ ins.type # "int" ->
                {ins.value} \ DOMAIN gen.constants
         [] OTHER -> {}

\* the memory operands [name] of the text of a stream
MemoryOperands(code) == UNION {Bracketed(code[k]) : k \in 1..Len(code)}

\* the chunk of out that holds the slots of the identifiers
Slots == Out[Len(Reservations(Out)) + 1]

\* C24: the .bss section holds exactly one <name> resb 8 line for every key
\* of the identifier table, whatever its recorded type, and no slot for any
\* other name apart from digitSpace and digitSpacePos; so every bracketed
\* memory operand [name] emitted for a stream of the generator names a
\* reserved slot.
C24_SlotsCoverOperands ==
    HasAsm =>
        /\ Out[1] = BssHeader
        /\ Slots =
              Group({<<"\t">> \o k \o <<" resb 8", "\n">> : k \in DOMAIN gen.identifiers})
        /\ Cardinality(Slots.group) = Cardinality(DOMAIN gen.identifiers)
        /\ \A o \in MemoryOperands(Code) :
              <<"\t">> \o o \o <<" resb 8", "\n">> \in Slots.group

(***************************************************************************)
(* The two helper routines on an x86-64 machine: the lines of the raw      *)
(* string literals of gen_print_num_function and gen_print_string_function *)
(* are executed one line per step.  Registers hold signed values; flags    *)
(* are kept as zf and lt (SF # OF).  A caller has put the argument in rdi  *)
(* and left anything in the other registers and in the buffers.            *)
(***************************************************************************)
MaxNumber == 120

MaxStringLen == 3

\* the addresses the linker gives the buffers of gen_variables, digitSpace
\* resb 100 followed by digitSpacePos resb 8
digitSpace == 1000

digitSpacePos == digitSpace + 100

\* the address of the caller's string
StringAt == 2000

\* what a caller may have left in a register or a buffer byte
Junk == {0, 55}

\* the bytes of the caller's strings: a letter and a newline
StringBytes == {104, 10}

CallerStrings == UNION {[1..n -> StringBytes] : n \in 0..MaxStringLen}

\* the lines of the routine the machine is in
Text(c) ==
    IF c.routine = "print_num" THEN gen_print_num_function_S
    ELSE gen_print_string_function_S

\* the line a label stands on
LabelAt(text, l) == CHOOSE k \in 1..Len(text) : text[k] = l

\* the addresses that are mapped: .bss and the caller's string with its
\* terminator and the byte behind it
Mapped(a) ==
    \/ a \in digitSpace..(digitSpacePos + 7)
    \/ a \in StringAt..(StringAt + MaxStringLen + 1)

Load(c, a) == IF a \in DOMAIN c.mem THEN c.mem[a] ELSE c.junk

Store(c, a, v) == [c EXCEPT !.mem = MapPut(@, a, v)]

\* the flags after an arithmetic result r that did not overflow
Flags(c, r) == [c EXCEPT !.zf = (r = 0), !.lt = (r < 0)]

\* cmp x, y
Cmp(c, x, y) == [c EXCEPT !.zf = (x = y), !.lt = (x < y)]

Goto(c, l) == [c EXCEPT !.ip = LabelAt(Text(c), l)]

Fall(c) == [c EXCEPT !.ip = @ + 1]

Fault(c) == [c EXCEPT !.halted = TRUE, !.fault = TRUE]

\* syscall with rax = 1: write(rdi, rsi, rdx); the kernel returns the count
\* in rax and leaves the return address in rcx
sys_write(c) ==
    IF c.rax # 1 \/ c.rdx < 0 \/ \E k \in 0..(c.rdx - 1) : ~Mapped(c.rsi + k)
    THEN Fault(c)
    ELSE Fall([c EXCEPT
                  !.writes = Append(@, [fd |-> c.rdi, buf |-> c.rsi, count |-> c.rdx,
                                        bytes |-> [k \in 1..c.rdx |->
                                                      Load(c, c.rsi + k - 1)]]),
                  !.rax = c.rdx,
                  !.rcx = 0 - c.ip])

\* one line of a routine; f is what the flags become where the
\* architecture leaves them undefined
Step(c, f) ==
    LET line == Text(c)[c.ip]
    IN CASE line = "    mov rcx, digitSpace       ; buffer start\n" ->
                Fall([c EXCEPT !.rcx = digitSpace])
         [] line = "    mov rbx, 10\n" -> Fall([c EXCEPT !.rbx = 10])
         [] line = "    mov rax, rdi              ; number\n" ->
                Fall([c EXCEPT !.rax = c.rdi])
         [] line = "    cmp rax, 0\n" -> Fall(Cmp(c, c.rax, 0))
         [] line = "    jge .loop\n" ->
                IF ~c.lt THEN Goto(c, ".loop:\n") ELSE Fall(c)
         [] line = "    neg rax\n" ->
                Fall(Flags([c EXCEPT !.rax = 0 - c.rax], 0 - c.rax))
         [] line = "    mov byte [rcx], '-'\n" ->
                IF Mapped(c.rcx) THEN Fall(Store(c, c.rcx, 45)) ELSE Fault(c)
         [] line = "    inc rcx\n" ->
                Fall(Flags([c EXCEPT !.rcx = c.rcx + 1], c.rcx + 1))
         [] line = "    xor rdx, rdx\n" -> Fall(Flags([c EXCEPT !.rdx = 0], 0))
         [] line = "    div rbx                   ; rax = rax/10, rdx = rax%10\n" ->
                IF c.rbx = 0 \/ c.rdx # 0 \/ c.rax < 0 THEN Fault(c)
                ELSE Fall([c EXCEPT !.rax = c.rax \div c.rbx,
                                    !.rdx = c.rax % c.rbx,
                                    !.zf = f[1], !.lt = f[2]])
         [] line = "    add dl, '0'\n" ->
                LET dl == c.rdx % 256
                    sum == (dl + 48) % 256
                IN Fall([c EXCEPT !.rdx = c.rdx - dl + sum,
                                  !.zf = (sum = 0),
                                  !.lt = (dl >= 128 /\ sum >= 128)])
         [] line = "    mov [rcx], dl\n" ->
                IF Mapped(c.rcx) THEN Fall(Store(c, c.rcx, c.rdx % 256)) ELSE Fault(c)
         [] line = "    test rax, rax\n" -> Fall(Flags(c, c.rax))
         [] line = "    jnz .loop\n" ->
                IF ~c.zf THEN Goto(c, ".loop:\n") ELSE Fall(c)
         [] line = "    mov rsi, rcx              ; rsi = end\n" ->
                Fall([c EXCEPT !.rsi = c.rcx])
         [] line = "    dec rsi                   ; last digit\n" ->
                Fall(Flags([c EXCEPT !.rsi = c.rsi - 1], c.rsi - 1))
         [] line = "    mov rdx, 1                ; write 1 byte at a time\n" ->
                Fall([c EXCEPT !.rdx = 1])
         [] line = "    mov rax, 1                ; write\n" ->
                Fall([c EXCEPT !.rax = 1])
         [] line = "    mov rdi, 1                ; stdout\n" ->
                Fall([c EXCEPT !.rdi = 1])
         [] line = "    syscall\n" -> sys_write(c)
         [] line = "    dec rsi\n" ->
                Fall(Flags([c EXCEPT !.rsi = c.rsi - 1], c.rsi - 1))
         [] line = "    cmp rsi, digitSpace\n" -> Fall(Cmp(c, c.rsi, digitSpace))
         [] line = "    jl .newline\n" ->
                IF c.lt THEN Goto(c, ".newline:\n") ELSE Fall(c)
         [] line = "    jmp .rev_loop\n" -> Goto(c, ".rev_loop:\n")
         [] line = "    mov byte [digitSpacePos], 10\n" ->
                Fall(Store(c, digitSpacePos, 10))
         [] line = "    mov rax, 1\n" -> Fall([c EXCEPT !.rax = 1])
         [] line = "    mov rdi, 1\n" -> Fall([c EXCEPT !.rdi = 1])
         [] line = "    mov rsi, digitSpacePos\n" ->
                Fall([c EXCEPT !.rsi = digitSpacePos])
         [] line = "    mov rdx, 1\n" -> Fall([c EXCEPT !.rdx = 1])
         [] line = "    ret" -> [c EXCEPT !.halted = TRUE]
         [] line = "    mov rsi, rdi\n" -> Fall([c EXCEPT !.rsi = c.rdi])
         [] line = "    cmp byte [rsi + rdx], 0\n" ->
                IF Mapped(c.rsi + c.rdx)
                THEN LET b == Load(c, c.rsi + c.rdx)
                     IN Fall([c EXCEPT !.zf = (b = 0), !.lt = (b >= 128)])
                ELSE Fault(c)
         [] line = "    je .write\n" ->
                IF c.zf THEN Goto(c, ".write:\n") ELSE Fall(c)
         [] line = "    inc rdx\n" ->
                Fall(Flags([c EXCEPT !.rdx = c.rdx + 1], c.rdx + 1))
         [] line = "    jmp .len_loop\n" -> Goto(c, ".len_loop:\n")
         [] line = "    mov rax, 1      ; sys_write\n" -> Fall([c EXCEPT !.rax = 1])
         [] line = "    mov rdi, 1      ; stdout\n" -> Fall([c EXCEPT !.rdi = 1])
         [] OTHER -> Fall(c)

\* the machine at "call <routine>" with arg in rdi, mem what the caller has
\* written and j what the caller has left elsewhere
Call(routine, arg, mem, j) ==
    [routine |-> routine, ip |-> 2, arg |-> arg, junk |-> j,
     rax |-> j, rbx |-> j, rcx |-> j, rdx |-> j, rsi |-> j, rdi |-> arg,
     zf |-> (j = 0), lt |-> (j # 0),
     mem |-> mem, writes |-> <<>>, halted |-> FALSE, fault |-> FALSE]

\* the caller's string s with its terminator at StringAt
StringMem(s) ==
    [a \in StringAt..(StringAt + Len(s)) |->
        IF a - StringAt < Len(s) THEN s[a - StringAt + 1] ELSE 0]

Calls ==
    {Call("print_num", n, <<>>, j) : n \in (0 - MaxNumber)..MaxNumber, j \in Junk}
        \cup {Call("print_string", StringAt, StringMem(s), j) :
                 s \in CallerStrings, j \in Junk}

RoutineInit ==
    /\ pc = "quit"
    /\ g_ast_root = Null
    /\ irgen = NoObject
    /\ gen = NoObject
    /\ codegen = NoObject
    /\ file = NoFile
    /\ pool = EmptyPool
    /\ runs = 0
    /\ history = <<>>
    /\ cpu \in Calls

\* the processor executes the line at ip
Execute ==
    /\ cpu # NoObject
    /\ ~cpu.halted
    /\ \E f \in BOOLEAN \X BOOLEAN : cpu' = Step(cpu, f)
    /\ UNCHANGED <<pc, g_ast_root, irgen, gen, codegen, file, pool, runs, history>>

RoutineSpec == RoutineInit /\ [][Execute]_vars

\* the routine has returned to its caller
Returned(routine) ==
    cpu # NoObject /\ cpu.routine = routine /\ cpu.halted /\ ~cpu.fault

RECURSIVE Written(_)
\* the bytes a sequence of writes has put on its descriptor, in order
Written(w) == IF w = <<>> THEN <<>> ELSE Head(w).bytes \o Written(Tail(w))

\* the decimal digits of n >= 0 as bytes, most significant first
DigitBytes(n) == [k \in 1..Len(to_string(n)) |-> CharCode(to_string(n)[k])]

\* the decimal representation of n as bytes, '-' first for a negative n
Decimal(n) ==
    IF n < 0 THEN <<45>> \o DigitBytes(0 - n) ELSE DigitBytes(n)

\* C25: print_num, called with an integer n in rdi, writes to descriptor 1,
\* one byte per write, the decimal representation of n -- the digits most
\* significant first, "0" for zero, and for a negative n the '-' sign first,
\* followed by the digits of |n| -- then one newline byte, and returns.
C25_PrintNum ==
    Returned("print_num") =>
        /\ \A k \in 1..Len(cpu.writes) :
              cpu.writes[k].fd = 1 /\ cpu.writes[k].count = 1
        /\ Written(cpu.writes) = Decimal(cpu.arg) \o <<10>>

\* C26: print_string, called with a pointer p to a NUL-terminated byte
\* string in rdi, performs exactly one write whose arguments are descriptor
\* 1, the buffer address p and the number of bytes before the first NUL,
\* then returns.
C26_PrintString ==
    /\ Returned("print_string") =>
          LET s == [k \in 1..(Cardinality(DOMAIN cpu.mem) - 1) |->
                       cpu.mem[StringAt + k - 1]]
          IN /\ \A k \in 1..Len(s) : s[k] # 0
             /\ cpu.mem[StringAt + Len(s)] = 0
             /\ cpu.writes =
                   <<[fd |-> 1, buf |-> cpu.arg, count |-> Len(s), bytes |-> s]>>
    /\ cpu # NoObject /\ cpu.routine = "print_string" => ~cpu.fault

\* print_string has written "h\n" with one write of two bytes and returned
C26_Witness ==
    /\ Returned("print_string")
    /\ cpu.junk = 55
    /\ cpu.writes = <<[fd |-> 1, buf |-> StringAt, count |-> 2, bytes |-> <<104, 10>>]>>

\* the positions of code whose Assignment has the target t
TargetsOf(code, t) ==
    {k \in 1..Len(code) : code[k].tag = "Assignment" /\ code[k].var = t}

\* the positions of code that read t: Assignment left/right, Compare
\* left/right, Print value
UsesOf(code, t) ==
    {k \in 1..Len(code) :
        \/ code[k].tag = "Assignment" /\ t \in {code[k].left, code[k].right}
        \/ code[k].tag = "Compare" /\ t \in {code[k].left, code[k].right}
        \/ code[k].tag = "Print" /\ code[k].value = t}

\* C28: in every stream of the generator each temporary T<n> is the target
\* of exactly one Assignment, that Assignment is a binary one, and it stands
\* at an earlier position than every instruction that uses T<n> as an
\* operand.
C28_TempsDefinedOnce ==
    HasBundle =>
        \A t \in IssuedSet("T") :
            /\ Cardinality(TargetsOf(Code, t)) = 1
            /\ \A d \in TargetsOf(Code, t) :
                  /\ Code[d].op # ""
                  /\ \A u \in UsesOf(Code, t) : d < u

(***************************************************************************)
(* Well-formed programs: every variable is declared int before it is used, *)
(* expressions are integer expressions, a string print prints a literal.   *)
(* The compile loop runs once on each.                                     *)
(***************************************************************************)
MaxDepth == 2

MaxEvents == 12

TenMinus == BinOpNode(NumberNode(<<"1", "0">>), "-", IPlusOne)

TypedBase ==
    {Assignment(<<"i">>, IPlusOne),
     Assignment(<<"i">>, TenMinus),
     PrintStatement("int", IPlusOne, <<>>),
     PrintStatement("string", Null, <<"h", "i">>),
     ScenarioC}

RECURSIVE TypedLevel(_)
TypedLevel(n) == IF n = 0 THEN TypedBase ELSE Wrap(TypedLevel(n - 1))

\* if (i <op> 1) i = i + 1; else print(i);
TypedConds ==
    {IfStatement(Condition(IdentifierNode(<<"i">>), op, NumberNode(<<"1">>)),
                 Assignment(<<"i">>, IPlusOne),
                 PrintStatement("int", IdentifierNode(<<"i">>), <<>>)) : op \in CmpOps}

\* int i; or int i = 1;
Prologues ==
    {Declaration("int", <<<<"i">>>>, Null),
     Declaration("int", <<<<"i">>>>, NumberNode(<<"1">>))}

\* int T1 = 0; while (T1 + 1 < 3) T1 = T1 + 1;
TempNamedVariable ==
    LET T1PlusOne == BinOpNode(IdentifierNode(<<"T", "1">>), "+", NumberNode(<<"1">>))
    IN Statement(Declaration("int", <<<<"T", "1">>>>, NumberNode(<<"0">>)),
                 WhileStatement(Condition(T1PlusOne, "<", NumberNode(<<"3">>)),
                                Statement(Assignment(<<"T", "1">>, T1PlusOne), Null)))

TypedASTs ==
    {Statement(d, p) :
        d \in Prologues,
        p \in TypedConds \cup UNION {TypedLevel(n) : n \in 0..MaxDepth}}
        \cup {TempNamedVariable}

TypedInit ==
    /\ pc = "irgen"
    /\ g_ast_root \in TypedASTs
    /\ irgen = NoObject
    /\ gen = NoObject
    /\ codegen = NoObject
    /\ file = NoFile
    /\ pool = EmptyPool
    /\ runs = 1
    /\ history = <<>>
    /\ cpu = NoObject

TypedNext ==
    \/ Construct
    \/ Get
    \/ Codegen

TypedSpec == TypedInit /\ [][TypedNext]_vars

(***************************************************************************)
(* The meaning of a program, as the events it performs: the assignments to *)
(* its variables and its prints, cut after MaxEvents of them.              *)
(***************************************************************************)
RECURSIVE ToNat(_)
\* the number a string of digits denotes
ToNat(s) ==
    IF s = <<>> THEN 0
    ELSE 10 * ToNat(SubSeq(s, 1, Len(s) - 1)) + (CharCode(s[Len(s)]) - 48)

stoi(s) == IF s[1] = "-" THEN 0 - ToNat(Tail(s)) ELSE ToNat(s)

\* integer division that truncates toward zero
Quotient(a, b) ==
    LET abs(x) == IF x < 0 THEN 0 - x ELSE x
        q == abs(a) \div abs(b)
    IN IF (a < 0) = (b < 0) THEN q ELSE 0 - q

Apply(op, a, b) ==
    CASE op = "+" -> a + b
      [] op = "-" -> a - b
      [] op = "*" -> a * b
      [] op = "/" -> Quotient(a, b)

Holds(cmp, a, b) ==
    CASE cmp = "==" -> a = b
      [] cmp = "!=" -> a # b
      [] cmp = "<" -> a < b
      [] cmp = "<=" -> a <= b
      [] cmp = ">" -> a > b
      [] cmp = ">=" -> a >= b

AssignEvent(v, x) == [event |-> "assign", var |-> v, value |-> x]

PrintEvent(kind, x) == [event |-> "print", kind |-> kind, value |-> x]

\* one more event in the run r, which stops when it has MaxEvents
Emit(r, e) ==
    [r EXCEPT !.trace = Append(@, e),
              !.end = IF Len(r.trace) + 1 >= MaxEvents THEN "cut" ELSE @]

RECURSIVE VarsOf(_)
\* the variables a program declares or assigns
VarsOf(n) ==
    CASE n.node = "Statement" -> VarsOf(n.left) \cup VarsOf(n.right)
      [] n.node = "Declaration" ->
            {n.identifiers[k].value : k \in DOMAIN n.identifiers}
      [] n.node = "Assignment" -> {n.identifier.value}
      [] n.node = "IfStatement" -> VarsOf(n.if_body) \cup VarsOf(n.else_body)
      [] n.node = "WhileStatement" -> VarsOf(n.body)
      [] OTHER -> {}

\* the abstract IR machine: the value of an operand
IRValue(o, env, consts) ==
    IF IsIntLiteral(o) THEN stoi(o)
    ELSE IF o \in DOMAIN consts THEN consts[o]
    ELSE env[o]

\* the position of the Label an instruction jumps to
LabelPosition(code, l) == CHOOSE k \in 1..Len(code) : code[k] = LabelCode(l)

\* one instruction of the abstract IR machine; a Compare jumps when the
\* comparison holds and falls through otherwise
StepIR(code, consts, user, r) ==
    LET ins == code[r.ip]
        next == [r EXCEPT !.ip = @ + 1]
        val(o) == IRValue(o, r.env, consts)
    IN CASE ins.tag = "Assignment" ->
                LET x == IF ins.op = "" THEN val(ins.left)
                         ELSE Apply(ins.op, val(ins.left), val(ins.right))
                    r1 == [next EXCEPT !.env[ins.var] = x]
                IN IF ins.var \in user THEN Emit(r1, AssignEvent(ins.var, x)) ELSE r1
         [] ins.tag = "Jump" -> [r EXCEPT !.ip = LabelPosition(code, ins.dist)]
         [] ins.tag = "Label" -> next
         [] ins.tag = "Compare" ->
                IF Holds(ins.operation, val(ins.left), val(ins.right))
                THEN [r EXCEPT !.ip = LabelPosition(code, ins.jump)]
                ELSE next
         [] ins.tag = "Print" -> Emit(next, PrintEvent(ins.type, val(ins.value)))

\* the machine halts behind the last instruction and stays as it is once
\* it has stopped
Tick(code, consts, user, r) ==
    IF r.end # "run" THEN r
    ELSE IF r.ip > Len(code) THEN [r EXCEPT !.end = "halt"]
    ELSE StepIR(code, consts, user, r)

RECURSIVE RunIR(_, _, _, _, _)
\* the machine from r on for fuel ticks, the first half of them first
RunIR(code, consts, user, r, fuel) ==
    IF fuel = 0 THEN r
    ELSE IF fuel = 1 THEN Tick(code, consts, user, r)
    ELSE LET half == RunIR(code, consts, user, r, fuel \div 2)
         IN IF half.end = "halt" THEN half
            ELSE RunIR(code, consts, user, half, fuel - (fuel \div 2))

RECURSIVE Eval(_, _)
\* the value of an expression of the AST
Eval(e, env) ==
    CASE e.node = "NumberNode" -> stoi(e.tok.value)
      [] e.node = "IdentifierNode" -> env[e.tok.value]
      [] e.node = "StringLiteralNode" -> e.tok.value
      [] e.node = "BinOpNode" ->
            Apply(e.op_tok.value, Eval(e.left, env), Eval(e.right, env))

Test(c, env) ==
    Holds(c.comparison.value, Eval(c.left_expression, env),
          Eval(c.right_expression, env))

Assign(r, v, x) == Emit([r EXCEPT !.env[v] = x], AssignEvent(v, x))

RECURSIVE Interp(_, _, _)
\* the AST interpreted directly; a While runs at most fuel iterations
Interp(n, r, fuel) ==
    IF r.end # "run" THEN r
    ELSE CASE n.node = "Statement" ->
                  Interp(n.right, Interp(n.left, r, fuel), fuel)
           [] n.node = "Declaration" ->
                  IF n.init_expr = Null THEN r
                  ELSE Assign(r, n.identifiers[1].value, Eval(n.init_expr, r.env))
           [] n.node = "Assignment" ->
                  Assign(r, n.identifier.value, Eval(n.expression, r.env))
           [] n.node = "PrintStatement" ->
                  IF n.type = "string" /\ n.strValue # <<>>
                  THEN Emit(r, PrintEvent("string", n.strValue))
                  ELSE Emit(r, PrintEvent(n.type, Eval(n.intExpr, r.env)))
           [] n.node = "IfStatement" ->
                  IF Test(n.if_condition, r.env)
                  THEN Interp(n.if_body, r, fuel)
                  ELSE Interp(n.else_body, r, fuel)
           [] n.node = "WhileStatement" ->
                  IF ~Test(n.condition, r.env) THEN r
                  ELSE IF fuel = 0 THEN [r EXCEPT !.end = "stuck"]
                  ELSE Interp(n, Interp(n.body, r, fuel), fuel - 1)
           [] OTHER -> r

\* a run that has not started: every slot holds 0
Start(names) ==
    [ip |-> 1, env |-> [v \in names |-> 0], trace |-> <<>>, end |-> "run"]

\* what the stream of the bundle does on the IR machine
StreamRun ==
    RunIR(Code, gen.constants, VarsOf(g_ast_root),
          Start(DOMAIN gen.identifiers \cup VarsOf(g_ast_root)),
          40 * MaxEvents)

\* what the program does when its AST is interpreted
ProgramRun == Interp(g_ast_root, Start(VarsOf(g_ast_root)), 2 * MaxEvents)

\* C27: the stream produced from a well-formed AST performs on the IR
\* machine the same sequence of variable assignments and prints as the AST
\* interpreted directly: one branch of an If, chosen by the condition, then
\* on after the end label; the condition of a While recomputed, temporaries
\* included, before each iteration and the body run while it holds.
C27_Refinement ==
    HasBundle =>
        /\ StreamRun.trace = ProgramRun.trace
        /\ StreamRun.end \in {"halt", "cut"}
        /\ ProgramRun.end \in {"run", "cut"}
        /\ (StreamRun.end = "halt") = (ProgramRun.end = "run")

(***************************************************************************)
(* The CodeGenerator alone on streams of Print instructions whose kind     *)
(* string is any std::string: PrintCodeIR::type is not confined to the two *)
(* kinds the generator writes.                                             *)
(***************************************************************************)
MaxPrints == 2

\* kind strings: the two of the generator, another type name, the empty
\* string and "int" in capitals
PrintKinds == {"int", "string", "float", "", "INT"}

\* a literal, a variable and a constant
PrintValues == {<<"1">>, <<"i">>, <<"S", "1">>}

PrintInstrs == {PrintCodeIR(t, v) : t \in PrintKinds, v \in PrintValues}

PrintStreams == UNION {[1..n -> PrintInstrs] : n \in 1..MaxPrints}

PrintKindInit ==
    /\ pc = "codegen"
    /\ g_ast_root = Null
    /\ irgen = NoObject
    /\ \E s \in PrintStreams :
          /\ pool = s
          /\ gen = [code |-> [k \in 1..Len(s) |-> k],
                    identifiers |-> [k \in {<<"i">>} |-> "int"],
                    constants |-> [k \in {<<"S", "1">>} |-> <<"h", "i">>]]
    /\ codegen = NoObject
    /\ file = NoFile
    /\ runs = 0
    /\ history = <<>>
    /\ cpu = NoObject

PrintKindSpec == PrintKindInit /\ [][Codegen]_vars

CallPrintNum == Line(<<"\tcall print_num", "\n">>)

CallPrintString == Line(<<"\tcall print_string", "\n">>)

====
